---------------------------- MODULE Spec2Model ----------------------------
(***************************************************************************)
(* A model of the pack protocol and object-reconstruction engine of the    *)
(* clone package: the pack-header size/type codec (packObjectSize), the    *)
(* pack file parser (ReadPackFile) and the two-pass object writer          *)
(* (WriteObjects) over the content-addressed object store.                 *)
(*                                                                         *)
(* Bytes are the integers 0..255, byte slices are sequences of bytes.      *)
(* Three specifications share the module: Spec (WriteObjects), SpecPack    *)
(* (ReadPackFile) and SpecSize (packObjectSize / convertToObjectType).     *)
(***************************************************************************)
EXTENDS Integers, Sequences, FiniteSets, TLC

VARIABLES
    \* ---- SpecSize: one call of packObjectSize and of convertToObjectType
    buf,        \* the content argument of packObjectSize
    encU,       \* the size the buffer was encoded from (bits), or NoU
    psize,      \* the value packObjectSize returned, or NotRun
    cvt,        \* the last call of convertToObjectType: [s, out], or NotRun
    \* ---- SpecPack: one call of ReadPackFile
    packBytes,  \* the content argument of ReadPackFile
    spare,      \* cap(packBytes) - len(packBytes); the spare bytes are zero
    packBase,   \* the input without what follows its last declared record
    cutRec,     \* index of the first declared record that is not whole in
                \* content, -1 when all are, -2 when the header is not
    ppc,        \* "header", "body" or "done"
    hdr,        \* what readPackFileHeader returned, or NotRun
    body,       \* content[offset:], the argument of readPackFileBody
    offset,     \* the cursor of readPackFileBody
    prevOffset, \* the cursor before the last record
    objIdx,     \* the loop index i of readPackFileBody
    packObjs,   \* the records decoded so far
    outcome,    \* "running", "ok", "error" or "panic"
    errAt,      \* the object index a returned error names, or -1
    beyond,     \* a slice of the call reached past len(packBytes)
    \* ---- Spec: one call of WriteObjects on the object store
    objects,    \* the objects argument of WriteObjects
    store0,     \* the store before the call: object id -> file bytes
    store,      \* the store: object id -> file bytes
    prevStore,  \* the store before the last round
    wpc,        \* "pass1", "pass2" or "done"
    wi,         \* the loop index i of the first loop
    deltas,     \* the local deltas of WriteObjects
    deltaAt,    \* for each element of deltas, its index in objects
    wj,         \* the loop index i of the second loop
    werr,       \* what WriteObjects returned: NoErr while it has not failed
    lastOp,     \* what the last round did: "defer", "single", "delta", "fail"
    wrote,      \* the files written so far, in order: [hash, file]
    \* ---- SpecDelta: one call of applyDelta
    dBase,      \* the baseContent argument
    dInstr,     \* the deltaInstructions argument
    dRes,       \* what applyDelta returned, or NotRun
    dRes2,      \* what the applyDelta with unrolled branches returned, or NotRun
    \* ---- SpecObject: objects written to and read from the object directory
    ostore,     \* the files of .git/objects: id -> bytes
    olast,      \* the last call and what it returned, or NotRun
    \* ---- SpecSha, SpecConc: the steps of CalculateSHA and of writeSingleObject, by one
    \* caller or by two goroutines and a reader
    defaultHasher, \* the bytes written to the package's hasher since its last Reset
    cpc,        \* for each caller, the step it is at
    cobj,       \* for each writer, the GitObject it writes
    carg,       \* for each caller, the argument of its CalculateSHA call
    csum,       \* for each caller, res of defaultHasher.Sum, or NoHash
    chash,      \* for each caller, what its last call returned: [err, sha]
    cfs,        \* the files of .git/objects: id -> bytes
    rpc,        \* the step of the reader: "off", "open", "read" or "done"
    rid,        \* the id the reader reads
    rseen,      \* what the reader got: the bytes of the file and the result
    shaLog,     \* the calls of CalculateSHA that returned: [content, enc, err, sha]
    \* ---- SpecAgain: WriteObjects called again on the same records
    wruns,      \* the number of calls of WriteObjects that have returned nil
    store1,     \* the store when the first call returned
    \* ---- SpecRefs: one call of GetRefList
    refInput,   \* the input argument: the body of the info/refs response
    refAdv,     \* what the input was built from: the refs advertised before the flush,
                \* or NotRun for an input that is no well-formed advertisement
    refRes,     \* what GetRefList returned, or NotRun
    refReq,     \* the body generateRefDiscoveryRequest built of the refs, or NotRun
    \* ---- SpecVarInt: one call of readVarInt
    vData,      \* the data argument
    vOffset,    \* the offset argument
    vRes,       \* what readVarInt returned, or NotRun
    \* ---- SpecCopy: the offset and the size of one copy command of applyDelta
    cpInstr,    \* the deltaInstructions
    cpAt,       \* deltaOffset at the command byte
    cpRes,      \* the offset, the size and deltaOffset once they are read, or NotRun
    cpRes2,     \* the same once the unrolled branches have read them, or NotRun
    \* ---- SpecFind: one call of findAndDecompress
    fData,      \* the data argument
    fBuilt,     \* what data was built of: the frame and what it holds, or NotRun for
                \* data that starts with no complete frame
    fRes        \* what findAndDecompress returned, or NotRun

sizeVars == <<buf, encU, psize, cvt>>
packVars == <<packBytes, spare, packBase, cutRec, ppc, hdr, body, offset, prevOffset,
              objIdx, packObjs, outcome, errAt, beyond>>
writeVars == <<objects, store0, store, prevStore, wpc, wi, deltas, deltaAt, wj, werr,
               lastOp, wrote>>
deltaVars == <<dBase, dInstr, dRes, dRes2>>
objectVars == <<ostore, olast>>
concVars == <<defaultHasher, cpc, cobj, carg, csum, chash, cfs, rpc, rid, rseen, shaLog>>
againVars == <<wruns, store1>>
refVars == <<refInput, refAdv, refRes, refReq>>
varIntVars == <<vData, vOffset, vRes>>
copyVars == <<cpInstr, cpAt, cpRes, cpRes2>>
findVars == <<fData, fBuilt, fRes>>
\* the variables of the specifications other than SpecSize, SpecPack and Spec
restVars == <<deltaVars, objectVars, concVars, againVars, refVars, varIntVars, copyVars, findVars>>
oldVars == <<sizeVars, packVars, writeVars>>
vars == <<oldVars, restVars>>
\* the variables a specification leaves alone
besideDelta == <<oldVars, objectVars, concVars, againVars, refVars, varIntVars, copyVars, findVars>>
besideObject == <<oldVars, deltaVars, concVars, againVars, refVars, varIntVars, copyVars, findVars>>
besideConc == <<oldVars, deltaVars, objectVars, againVars, refVars, varIntVars, copyVars, findVars>>
besideAgain == <<sizeVars, packVars, deltaVars, objectVars, concVars, refVars, varIntVars, copyVars, findVars>>
besideRefs == <<oldVars, deltaVars, objectVars, concVars, againVars, varIntVars, copyVars, findVars>>
besideVarInt == <<oldVars, deltaVars, objectVars, concVars, againVars, refVars, copyVars, findVars>>
besideCopy == <<oldVars, deltaVars, objectVars, concVars, againVars, refVars, varIntVars, findVars>>
besideFind == <<oldVars, deltaVars, objectVars, concVars, againVars, refVars, varIntVars, copyVars>>

NotRun == [run |-> FALSE]
NoU == <<2>>

\* the variables of a specification that another specification leaves alone
SizeIdle == buf = <<>> /\ encU = NoU /\ psize = NotRun /\ cvt = NotRun

PackIdle ==
    /\ packBytes = <<>> /\ spare = 0 /\ packBase = <<>> /\ cutRec = -1
    /\ ppc = "idle" /\ hdr = NotRun /\ body = <<>> /\ offset = 0 /\ prevOffset = 0
    /\ objIdx = 0 /\ packObjs = <<>> /\ outcome = "idle" /\ errAt = -1
    /\ beyond = FALSE

NoErr == [failed |-> FALSE]

WriteIdle ==
    /\ objects = <<>> /\ store0 = <<>> /\ store = <<>> /\ prevStore = <<>>
    /\ wpc = "idle" /\ wi = 0 /\ deltas = <<>> /\ deltaAt = <<>> /\ wj = 0
    /\ werr = NoErr /\ lastOp = "none" /\ wrote = <<>>

DeltaIdle == dBase = <<>> /\ dInstr = <<>> /\ dRes = NotRun /\ dRes2 = NotRun

ObjectIdle == ostore = <<>> /\ olast = NotRun

ConcIdle ==
    /\ defaultHasher = <<>> /\ cpc = <<>> /\ cobj = <<>> /\ carg = <<>> /\ csum = <<>>
    /\ chash = <<>> /\ cfs = <<>> /\ rpc = "off" /\ rid = [len |-> 0, of |-> <<>>]
    /\ rseen = NotRun /\ shaLog = <<>>

AgainIdle == wruns = 0 /\ store1 = <<>>

RefsIdle == refInput = <<>> /\ refAdv = NotRun /\ refRes = NotRun /\ refReq = NotRun

VarIntIdle == vData = <<>> /\ vOffset = 0 /\ vRes = NotRun

CopyIdle == cpInstr = <<>> /\ cpAt = 0 /\ cpRes = NotRun /\ cpRes2 = NotRun

FindIdle == fData = <<>> /\ fBuilt = NotRun /\ fRes = NotRun

RestIdle == DeltaIdle /\ ObjectIdle /\ ConcIdle /\ AgainIdle /\ RefsIdle /\ VarIntIdle /\ CopyIdle /\ FindIdle
OldIdle == SizeIdle /\ PackIdle /\ WriteIdle
IdleBesideDelta == OldIdle /\ ObjectIdle /\ ConcIdle /\ AgainIdle /\ RefsIdle /\ VarIntIdle /\ CopyIdle /\ FindIdle
IdleBesideObject == OldIdle /\ DeltaIdle /\ ConcIdle /\ AgainIdle /\ RefsIdle /\ VarIntIdle /\ CopyIdle /\ FindIdle
IdleBesideConc == OldIdle /\ DeltaIdle /\ ObjectIdle /\ AgainIdle /\ RefsIdle /\ VarIntIdle /\ CopyIdle /\ FindIdle
IdleBesideAgain == SizeIdle /\ PackIdle /\ DeltaIdle /\ ObjectIdle /\ ConcIdle /\ RefsIdle /\ VarIntIdle /\ CopyIdle /\ FindIdle
IdleBesideRefs == OldIdle /\ DeltaIdle /\ ObjectIdle /\ ConcIdle /\ AgainIdle /\ VarIntIdle /\ CopyIdle /\ FindIdle
IdleBesideVarInt == OldIdle /\ DeltaIdle /\ ObjectIdle /\ ConcIdle /\ AgainIdle /\ RefsIdle /\ CopyIdle /\ FindIdle
IdleBesideCopy == OldIdle /\ DeltaIdle /\ ObjectIdle /\ ConcIdle /\ AgainIdle /\ RefsIdle /\ VarIntIdle /\ FindIdle
IdleBesideFind == OldIdle /\ DeltaIdle /\ ObjectIdle /\ ConcIdle /\ AgainIdle /\ RefsIdle /\ VarIntIdle /\ CopyIdle

(***************************************************************************)
(* Object kinds of a pack record header.                                   *)
(***************************************************************************)
OBJ_INVALID == 0
OBJ_COMMIT == 1
OBJ_TREE == 2
OBJ_BLOB == 3
OBJ_TAG == 4
OBJ_OFS_DELTA == 6
OBJ_REF_DELTA == 7

(***************************************************************************)
(* uint64 arithmetic.  TLC's integers are 32 bits wide, so a uint64 is a   *)
(* sequence of U64Bits bits, least significant first, and the operations   *)
(* wrap modulo 2^64 as Go's do.                                            *)
(***************************************************************************)
U64Bits == 64

Pow2(n) == 2 ^ n

\* uint64(v) for a small non-negative v (v < 2^31)
U64(v) == [p \in 1..U64Bits |-> IF p <= 31 THEN (v \div Pow2(p - 1)) % 2 ELSE 0]

\* uint64(v) * (1 << s) for a 7-bit v: the bits of v moved up by s, the bits
\* that leave the 64-bit word dropped
U64MulPow2(v, s) ==
    [p \in 1..U64Bits |->
        IF p - 1 >= s /\ p - 1 - s < 7 THEN (v \div Pow2(p - 1 - s)) % 2 ELSE 0]

RECURSIVE U64AddFrom(_, _, _, _)
U64AddFrom(a, b, p, carry) ==
    IF p > U64Bits THEN <<>>
    ELSE LET s == a[p] + b[p] + carry
         IN <<s % 2>> \o U64AddFrom(a, b, p + 1, s \div 2)

\* a + b on uint64: ripple carry, the carry out of bit 63 dropped
U64Add(a, b) == U64AddFrom(a, b, 1, 0)

(***************************************************************************)
(* packObjectSize: the per-object header of a pack record.                 *)
(***************************************************************************)
SizeErr == [err |-> TRUE, length |-> U64(0), objType |-> 0, bytesRead |-> 0]

SizeOk(length, objType, bytesRead) ==
    [err |-> FALSE, length |-> length, objType |-> objType, bytesRead |-> bytesRead]

\* objType = GitObjectType((b >> 4) & 0x07); objType > 7 || objType == 5 is Invalid
HeaderObjType(b) ==
    LET t == (b \div 16) % 8
    IN IF t > 7 \/ t = 5 THEN OBJ_INVALID ELSE t

\* the first shift of the continuation loop, and what each byte adds to it
FirstBitShift == 4
BitShiftStep_Wide == 7 + 1
BitShiftStep == 7

\* the loop "for more": one continuation byte per round
RECURSIVE packObjectSizeLoop(_, _, _, _, _)
packObjectSizeLoop(content, length, objType, bytesRead, bitShift) ==
    IF bytesRead >= Len(content) \/ bitShift >= 64 THEN SizeErr
    ELSE LET b == content[bytesRead + 1]
             additonalLength == U64MulPow2(b % 128, bitShift)
             length2 == U64Add(length, additonalLength)
             more == (b \div 128) % 2 = 1
         IN IF more
            THEN packObjectSizeLoop(content, length2, objType, bytesRead + 1,
                                    bitShift + BitShiftStep)
            ELSE SizeOk(length2, objType, bytesRead + 1)

packObjectSize(content) ==
    IF Len(content) = 0 THEN SizeErr
    ELSE LET b == content[1]
             objType == HeaderObjType(b)
             sizeFromFirstByte == b % 16
             more == (b \div 128) % 2 = 1
         IN IF ~more THEN SizeOk(U64(sizeFromFirstByte), objType, 1)
            ELSE packObjectSizeLoop(content, U64(sizeFromFirstByte), objType, 1,
                                    FirstBitShift)

(***************************************************************************)
(* convertToObjectType of the mygit command: values above 7 are Invalid,   *)
(* every other value is returned as it is.                                 *)
(***************************************************************************)
convertToObjectType(s) == IF s > 7 THEN OBJ_INVALID ELSE s

\* readTypeAndSize of the mygit command, as far as the kind goes: the kind is
\* convertToObjectType of bits 6..4 of the first header byte
readTypeAndSizeKind(content) ==
    IF Len(content) = 0 THEN [run |-> TRUE, err |-> TRUE, s |-> 0, out |-> OBJ_INVALID]
    ELSE LET objectType == (content[1] \div 16) % 8
         IN [run |-> TRUE, err |-> FALSE, s |-> objectType,
             out |-> convertToObjectType(objectType)]

(***************************************************************************)
(* Byte slices.  A Go slice s[lo:hi] is legal up to cap(s), not len(s): a   *)
(* slice that ends past the capacity panics, one that ends between the     *)
(* length and the capacity reads the spare bytes of the backing array.     *)
(***************************************************************************)
Drop(bits, n) == IF n >= Len(bits) THEN <<>> ELSE SubSeq(bits, n + 1, Len(bits))

\* s[lo:hi] panics
SlicePanics(s, sp, lo, hi) == hi > Len(s) + sp

\* s[lo:hi] reads past len(s)
SliceBeyond(s, sp, lo, hi) == hi > Len(s) /\ hi <= Len(s) + sp

\* the bytes of s[lo:hi]
Slice(s, lo, hi) == [p \in 1..(hi - lo) |-> IF lo + p <= Len(s) THEN s[lo + p] ELSE 0]

readBigEndian(b) == b[4] + b[3] * 256 + b[2] * 65536 + b[1] * 16777216

\* hex.EncodeToString: two lower-case hex digits a byte, as character codes
HexDigit(d) == IF d < 10 THEN 48 + d ELSE 87 + d

RECURSIVE HexEncode(_)
HexEncode(bytes) ==
    IF Len(bytes) = 0 THEN <<>>
    ELSE <<HexDigit(bytes[1] \div 16), HexDigit(bytes[1] % 16)>> \o HexEncode(Tail(bytes))

(***************************************************************************)
(* readPackFileHeader.                                                     *)
(***************************************************************************)
NakLine == <<48, 48, 48, 56, 78, 65, 75, 10>>
PackMagic == <<80, 65, 67, 75>>

VersionOK_Only2(version) == version = 2
VersionOK(version) == version = 2 \/ version = 3

HdrResult(out, why, off, version, num, bey) ==
    [run |-> TRUE, outcome |-> out, why |-> why, offset |-> off, version |-> version,
     numOfObjects |-> num, beyond |-> bey]

readPackFileHeader(c, sp) ==
    IF SlicePanics(c, sp, 0, 8) THEN HdrResult("panic", "nak", 0, 0, 0, FALSE)
    ELSE
    LET b0 == SliceBeyond(c, sp, 0, 8)
        o1 == IF Slice(c, 0, 8) = NakLine THEN 8 ELSE 0
    IN
    IF SlicePanics(c, sp, o1, o1 + 4) THEN HdrResult("panic", "magic", o1, 0, 0, b0)
    ELSE
    LET b1 == b0 \/ SliceBeyond(c, sp, o1, o1 + 4)
    IN
    IF Slice(c, o1, o1 + 4) # PackMagic THEN HdrResult("error", "magic", o1, 0, 0, b1)
    ELSE
    LET o2 == o1 + 4
    IN
    IF SlicePanics(c, sp, o2, o2 + 4) THEN HdrResult("panic", "version", o2, 0, 0, b1)
    ELSE
    LET b2 == b1 \/ SliceBeyond(c, sp, o2, o2 + 4)
        version == readBigEndian(Slice(c, o2, o2 + 4))
    IN
    IF ~VersionOK(version) THEN HdrResult("error", "version", o2, 0, 0, b2)
    ELSE
    LET o3 == o2 + 4
    IN
    IF SlicePanics(c, sp, o3, o3 + 4) THEN HdrResult("panic", "count", o3, 0, 0, b2)
    ELSE
    LET b3 == b2 \/ SliceBeyond(c, sp, o3, o3 + 4)
        numOfObject == readBigEndian(Slice(c, o3, o3 + 4))
    IN HdrResult("ok", "", o3 + 4, version, numOfObject, b3)

(***************************************************************************)
(* findAndDecompress.  compress/zlib over a bytes.Reader: the two header   *)
(* bytes, the deflate blocks read byte by byte, the Adler-32 of the output.*)
(* The model inflates stored blocks (BTYPE 00); a Huffman block is marked  *)
(* huffman and no input of the model holds one.                            *)
(***************************************************************************)
AdlerMod == 65521

RECURSIVE AdlerFrom(_, _, _, _)
AdlerFrom(data, p, a, b) ==
    IF p > Len(data) THEN <<b \div 256, b % 256, a \div 256, a % 256>>
    ELSE LET a2 == (a + data[p]) % AdlerMod
         IN AdlerFrom(data, p + 1, a2, (b + a2) % AdlerMod)

Adler32Bytes(data) == AdlerFrom(data, 1, 1, 0)

ZErr == [err |-> TRUE, huffman |-> FALSE, decompressed |-> <<>>, used |-> 0]

RECURSIVE InflateStored(_, _, _)
InflateStored(data, pos, out) ==
    IF pos >= Len(data) THEN [err |-> TRUE, huffman |-> FALSE, out |-> <<>>, pos |-> 0]
    ELSE
    LET h == data[pos + 1]
        final == h % 2
        typ == (h \div 2) % 4
    IN
    IF typ = 3 THEN [err |-> TRUE, huffman |-> FALSE, out |-> <<>>, pos |-> 0]
    ELSE IF typ # 0 THEN [err |-> TRUE, huffman |-> TRUE, out |-> <<>>, pos |-> 0]
    ELSE IF pos + 5 > Len(data) THEN [err |-> TRUE, huffman |-> FALSE, out |-> <<>>, pos |-> 0]
    ELSE
    LET n == data[pos + 2] + 256 * data[pos + 3]
        nn == data[pos + 4] + 256 * data[pos + 5]
    IN
    IF nn # 65535 - n \/ pos + 5 + n > Len(data)
    THEN [err |-> TRUE, huffman |-> FALSE, out |-> <<>>, pos |-> 0]
    ELSE
    LET out2 == out \o SubSeq(data, pos + 6, pos + 5 + n)
    IN IF final = 1
       THEN [err |-> FALSE, huffman |-> FALSE, out |-> out2, pos |-> pos + 5 + n]
       ELSE InflateStored(data, pos + 5 + n, out2)

findAndDecompress(data) ==
    IF Len(data) < 2 THEN ZErr
    ELSE
    LET cmf == data[1]
        flg == data[2]
    IN
    IF cmf % 16 # 8 \/ cmf \div 16 > 7 \/ (cmf * 256 + flg) % 31 # 0 THEN ZErr
    ELSE IF (flg \div 32) % 2 = 1 THEN ZErr
    ELSE
    LET r == InflateStored(data, 2, <<>>)
    IN
    IF r.err THEN [ZErr EXCEPT !.huffman = r.huffman]
    ELSE IF r.pos + 4 > Len(data) THEN ZErr
    ELSE IF SubSeq(data, r.pos + 1, r.pos + 4) # Adler32Bytes(r.out) THEN ZErr
    ELSE [err |-> FALSE, huffman |-> FALSE, decompressed |-> r.out, used |-> r.pos + 4]

(***************************************************************************)
(* readPackFileBody: one round of its loop, and the loop.                  *)
(***************************************************************************)
GitObject(objType, cont, base) ==
    [ObjectType |-> objType, Size |-> Len(cont), Content |-> cont, Base |-> base]

NoObject == GitObject(OBJ_INVALID, <<>>, <<>>)

ObjResult(out, why, obj, off, bey) ==
    [outcome |-> out, why |-> why, obj |-> obj, offset |-> off, beyond |-> bey]

\* the check after "offset += used"
OffsetExceeded_Strict(off, length) == off # length
OffsetExceeded(off, length) == off > length

\* the round for object i with the cursor at off: the header, the base hash
\* of a ref-delta, the payload
readPackObject(c, sp, off) ==
    LET sz == packObjectSize(Drop(c, off))
    IN
    IF sz.err THEN ObjResult("error", "size", NoObject, off, FALSE)
    ELSE
    LET o1 == off + sz.bytesRead
        objType == sz.objType
        isRef == objType = OBJ_REF_DELTA
        o2 == IF isRef THEN o1 + 20 ELSE o1
    IN
    IF objType \notin {OBJ_TAG, OBJ_BLOB, OBJ_COMMIT, OBJ_TREE, OBJ_REF_DELTA, OBJ_OFS_DELTA}
    THEN ObjResult("panic", "kind", NoObject, off, FALSE)
    ELSE IF isRef /\ SlicePanics(c, sp, o1, o1 + 20)
    THEN ObjResult("panic", "base", NoObject, off, FALSE)
    ELSE
    LET bey == isRef /\ SliceBeyond(c, sp, o1, o1 + 20)
        base == IF isRef THEN HexEncode(Slice(c, o1, o1 + 20)) ELSE <<>>
    IN
    IF o2 > Len(c) THEN ObjResult("panic", "payload", NoObject, off, bey)
    ELSE
    LET z == findAndDecompress(Drop(c, o2))
    IN
    IF z.err THEN ObjResult("error", IF z.huffman THEN "huffman" ELSE "zlib", NoObject, off, bey)
    ELSE
    LET o3 == o2 + z.used
    IN IF OffsetExceeded(o3, Len(c))
       THEN ObjResult("error", "offset", NoObject, off, bey)
       ELSE ObjResult("ok", "", GitObject(objType, z.decompressed, base), o3, bey)

RECURSIVE readPackFileBodyFrom(_, _, _, _, _, _)
readPackFileBodyFrom(c, sp, numOfObj, i, off, objs) ==
    IF i >= numOfObj THEN [outcome |-> "ok", objects |-> objs, offset |-> off]
    ELSE LET r == readPackObject(c, sp, off)
         IN IF r.outcome # "ok" THEN [outcome |-> r.outcome, objects |-> <<>>, offset |-> off]
            ELSE readPackFileBodyFrom(c, sp, numOfObj, i + 1, r.offset, Append(objs, r.obj))

readPackFileBody(c, sp, numOfObj) == readPackFileBodyFrom(c, sp, numOfObj, 0, 0, <<>>)

ReadPackFile(c, sp) ==
    LET h == readPackFileHeader(c, sp)
    IN IF h.outcome # "ok" THEN [outcome |-> h.outcome, objects |-> <<>>, offset |-> 0]
       ELSE IF h.offset > Len(c) THEN [outcome |-> "panic", objects |-> <<>>, offset |-> 0]
       ELSE readPackFileBody(Drop(c, h.offset), sp, h.numOfObjects)

(***************************************************************************)
(* Inputs of SpecSize.  A buffer is a first byte, m continuation bytes     *)
(* (bit 7 set), an optional terminating byte (bit 7 clear) and optional    *)
(* trailing bytes; or a bare first byte of any value; or one of the test's *)
(* vectors; or the header-size encoding of a sample size.                  *)
(***************************************************************************)
MaxCont == 9
MaxSizeBits == 35

FirstBytes == {0, 10, 53, 138, 150, 223, 255}
ContFill == {129, 255}
LastCont == {128, 143, 144, 255}
TermBytes == {0, 15, 16, 127}
TrailBytes == {<<>>, <<120>>}

Repeat(b, n) == [p \in 1..n |-> b]

ContRuns ==
    {<<>>} \cup {Repeat(f, m - 1) \o <<l>> : f \in ContFill, l \in LastCont, m \in 1..MaxCont}

GeneratedBufs ==
    {<<f>> \o c \o t \o r :
        f \in FirstBytes, c \in ContRuns,
        t \in {<<>>} \cup {<<b>> : b \in TermBytes}, r \in TrailBytes}

TestVectors == {<<10>>, <<138, 66>>, <<130, 129, 3>>, <<150, 10>>, <<0>>, <<>>}

SingleBytes == {<<b>> : b \in 0..255}

\* a size as bits, least significant first
NatBits(n) == [p \in 1..31 |-> (n \div Pow2(p - 1)) % 2]
OnesBits(n) == [p \in 1..n |-> 1]
PowBits(n) == [p \in 1..(n + 1) |-> IF p = n + 1 THEN 1 ELSE 0]

SampleU ==
    {NatBits(n) : n \in {0, 10, 15, 16, 166, 1066, 6162, 2047, 2048, 2147483647}}
        \cup {OnesBits(n) : n \in 0..MaxSizeBits}
        \cup {PowBits(n) : n \in 0..(MaxSizeBits - 1)}

AnyOne(bits) == \E p \in 1..Len(bits) : bits[p] = 1

\* the value of the first n bits of a bit sequence (n <= 7)
LowVal(bits, n) ==
    LET b(p) == IF p <= Len(bits) THEN bits[p] ELSE 0
        RECURSIVE Sum(_)
        Sum(p) == IF p > n THEN 0 ELSE b(p) * Pow2(p - 1) + Sum(p + 1)
    IN Sum(1)

RECURSIVE EncodeGroups(_)
EncodeGroups(rest) ==
    IF ~AnyOne(rest) THEN <<>>
    ELSE LET rem == Drop(rest, 7)
         IN <<(IF AnyOne(rem) THEN 128 ELSE 0) + LowVal(rest, 7)>> \o EncodeGroups(rem)

\* the header-size encoding of gitformat-pack: kind t and size u (bits)
EncodeSize(t, u) ==
    LET rest == Drop(u, 4)
    IN <<(IF AnyOne(rest) THEN 128 ELSE 0) + t * 16 + LowVal(u, 4)>> \o EncodeGroups(rest)

InitSize ==
    /\ \/ /\ buf \in GeneratedBufs \cup TestVectors \cup SingleBytes
          /\ encU = NoU
       \/ \E t \in {OBJ_COMMIT, OBJ_REF_DELTA}, u \in SampleU :
             /\ buf = EncodeSize(t, u)
             /\ encU = u
    /\ psize = NotRun
    /\ cvt = NotRun
    /\ PackIdle
    /\ WriteIdle
    /\ RestIdle

\* a call packObjectSize(buf)
DecodeSize ==
    /\ ~psize.run
    /\ psize' = [run |-> TRUE] @@ packObjectSize(buf)
    /\ UNCHANGED <<buf, encU, cvt, packVars, writeVars, restVars>>

\* a call readTypeAndSize on the same header bytes
ConvertType ==
    /\ ~cvt.run
    /\ cvt' = readTypeAndSizeKind(buf)
    /\ UNCHANGED <<buf, encU, psize, packVars, writeVars, restVars>>

NextSize == DecodeSize \/ ConvertType

SpecSize == InitSize /\ [][NextSize]_vars

(***************************************************************************)
(* Inputs of SpecPack.  A pack is a header, records and a trailer; a       *)
(* record is its size/type header, the base hash of a ref-delta (the       *)
(* offset of an offset-delta) and a zlib frame of one stored block.  The   *)
(* inputs are whole packs that declare no more records than they hold,     *)
(* with and without bytes after them, packs that declare one record more   *)
(* than they hold, every proper prefix of a pack, and packs with a bad     *)
(* magic or version.                                                       *)
(***************************************************************************)
MaxPackObjs == 2
MaxTruncObjs == 2
SpareCap == 24

ZFrame(payload) ==
    LET n == Len(payload)
    IN <<120, 1, 1, n % 256, n \div 256, 255 - (n % 256), 255 - (n \div 256)>>
           \o payload \o Adler32Bytes(payload)

\* a frame whose checksum is wrong
ZFrameBadSum(payload) ==
    LET f == ZFrame(payload) IN [f EXCEPT ![Len(f)] = (f[Len(f)] + 1) % 256]

DeltaPayload == <<1, 1, 144, 1>>

\* the records whose prefixes are inputs
TruncRecPool ==
    { EncodeSize(OBJ_BLOB, NatBits(1)) \o ZFrame(<<104>>),
      EncodeSize(OBJ_TREE, NatBits(17)) \o ZFrame(Repeat(116, 17)),
      EncodeSize(OBJ_REF_DELTA, NatBits(4)) \o Repeat(171, 20) \o ZFrame(DeltaPayload) }

PackRecPool ==
    TruncRecPool \cup
    { EncodeSize(OBJ_OFS_DELTA, NatBits(4)) \o <<5>> \o ZFrame(DeltaPayload),
      EncodeSize(5, NatBits(0)) \o ZFrame(<<>>),
      EncodeSize(OBJ_COMMIT, NatBits(1)) \o ZFrameBadSum(<<99>>) }

BodySeqs(pool, max) == UNION {[1..n -> pool] : n \in 0..max}

RECURSIVE Flatten(_)
Flatten(recs) == IF Len(recs) = 0 THEN <<>> ELSE Head(recs) \o Flatten(Tail(recs))

PackHeaderBytes(nak, magic, version, count) ==
    (IF nak THEN NakLine ELSE <<>>) \o magic \o <<0, 0, 0, version>> \o <<0, 0, 0, count>>

Trailers == {<<>>, Repeat(17, 20)}

\* with and without the acknowledgement line, versions 2 and 3
PackHeads == {<<TRUE, 2>>, <<FALSE, 2>>, <<FALSE, 3>>}

PackInput(bytes, base, cut) == [bytes |-> bytes, base |-> base, cutRec |-> cut]

FullInputs ==
    UNION { { PackInput(PackHeaderBytes(hv[1], PackMagic, hv[2], n) \o Flatten(recs) \o t,
                        PackHeaderBytes(hv[1], PackMagic, hv[2], n) \o Flatten(recs), -1) :
                  n \in 0..Len(recs), t \in Trailers } :
            hv \in PackHeads, recs \in BodySeqs(PackRecPool, MaxPackObjs) }

MissingInputs ==
    { PackInput(PackHeaderBytes(hv[1], PackMagic, hv[2], Len(recs) + 1) \o Flatten(recs),
                PackHeaderBytes(hv[1], PackMagic, hv[2], Len(recs) + 1) \o Flatten(recs),
                Len(recs)) :
          hv \in PackHeads, recs \in BodySeqs(PackRecPool, MaxPackObjs) }

\* the index of the record of a pack (header length h, records recs) that
\* holds byte k, -2 when the header does
RECURSIVE CutRecFrom(_, _, _, _)
CutRecFrom(recs, i, endOfPrev, k) ==
    IF i >= Len(recs) \/ endOfPrev + Len(recs[i + 1]) > k THEN i
    ELSE CutRecFrom(recs, i + 1, endOfPrev + Len(recs[i + 1]), k)

CutRecOf(h, recs, k) == IF k < h THEN -2 ELSE CutRecFrom(recs, 0, h, k)

TruncBases ==
    {<<nak, <<>>>> : nak \in BOOLEAN}
        \cup {<<FALSE, recs>> : recs \in BodySeqs(TruncRecPool, MaxTruncObjs) \ {<<>>}}

TruncInputs ==
    UNION { LET h == PackHeaderBytes(b[1], PackMagic, 2, Len(b[2]))
                whole == h \o Flatten(b[2])
            IN { PackInput(SubSeq(whole, 1, k), SubSeq(whole, 1, k),
                           CutRecOf(Len(h), b[2], k)) : k \in 0..(Len(whole) - 1) } :
            b \in TruncBases }

BadHeaderInputs ==
    { PackInput(h \o Flatten(<<r>>), h \o Flatten(<<r>>), -1) :
          h \in { PackHeaderBytes(FALSE, PackMagic, 1, 1),
                  PackHeaderBytes(FALSE, PackMagic, 4, 1),
                  PackHeaderBytes(FALSE, <<80, 65, 67, 88>>, 2, 1),
                  PackHeaderBytes(TRUE, <<80, 65, 67, 88>>, 1, 1),
                  PackHeaderBytes(TRUE, PackMagic, 1, 1) },
          r \in {EncodeSize(OBJ_BLOB, NatBits(1)) \o ZFrame(<<104>>)} }

\* a bad magic in a buffer too short to hold an acknowledgement line
ShortInputs ==
    { PackInput(b, b, -2) : b \in {<<80, 65, 67, 88>>, <<80, 65, 67, 88, 0, 0, 0>>} }

PackInputs ==
    FullInputs \cup MissingInputs \cup TruncInputs \cup BadHeaderInputs \cup ShortInputs

InitPack ==
    /\ \E inp \in PackInputs :
          /\ packBytes = inp.bytes
          /\ packBase = inp.base
          /\ cutRec = inp.cutRec
    /\ spare \in {0, SpareCap}
    /\ ppc = "header"
    /\ hdr = NotRun
    /\ body = <<>>
    /\ offset = 0
    /\ prevOffset = 0
    /\ objIdx = 0
    /\ packObjs = <<>>
    /\ outcome = "running"
    /\ errAt = -1
    /\ beyond = FALSE
    /\ SizeIdle
    /\ WriteIdle
    /\ RestIdle

\* ReadPackFile up to the call of readPackFileBody: the header, then
\* content = content[offset:]; a pack of no objects returns here
ReadHeader ==
    /\ ppc = "header"
    /\ LET h == readPackFileHeader(packBytes, spare)
           fails == h.outcome # "ok"
           panics == ~fails /\ h.offset > Len(packBytes)
           empty == ~fails /\ ~panics /\ h.numOfObjects = 0
       IN /\ hdr' = h
          /\ beyond' = h.beyond
          /\ body' = IF fails \/ panics THEN body ELSE Drop(packBytes, h.offset)
          /\ outcome' = IF fails THEN h.outcome
                        ELSE IF panics THEN "panic"
                        ELSE IF empty THEN "ok" ELSE "running"
          /\ ppc' = IF fails \/ panics \/ empty THEN "done" ELSE "body"
    /\ UNCHANGED <<packBytes, spare, packBase, cutRec, offset, prevOffset, objIdx,
                   packObjs, errAt, sizeVars, writeVars, restVars>>

\* one round of the loop of readPackFileBody; the last round returns
ReadObject ==
    /\ ppc = "body"
    /\ LET r == readPackObject(body, spare, offset)
           ok == r.outcome = "ok"
           last == ok /\ objIdx + 1 >= hdr.numOfObjects
       IN /\ beyond' = (beyond \/ r.beyond)
          /\ packObjs' = IF ok THEN Append(packObjs, r.obj) ELSE packObjs
          /\ prevOffset' = IF ok THEN offset ELSE prevOffset
          /\ offset' = IF ok THEN r.offset ELSE offset
          /\ objIdx' = IF ok THEN objIdx + 1 ELSE objIdx
          /\ errAt' = IF r.outcome = "error" THEN objIdx ELSE errAt
          /\ outcome' = IF ~ok THEN r.outcome ELSE IF last THEN "ok" ELSE "running"
          /\ ppc' = IF ~ok \/ last THEN "done" ELSE "body"
    /\ UNCHANGED <<packBytes, spare, packBase, cutRec, hdr, body, sizeVars, writeVars,
                   restVars>>

NextPack == ReadHeader \/ ReadObject

SpecPack == InitPack /\ [][NextPack]_vars

(***************************************************************************)
(* What the claims about the size codec speak of.                          *)
(***************************************************************************)
\* the index (from 0) of the first byte with bit 7 clear, or -1
FirstClear(content) ==
    IF \A p \in 1..Len(content) : content[p] >= 128 THEN -1
    ELSE (CHOOSE p \in 1..Len(content) :
              content[p] < 128 /\ \A q \in 1..(p - 1) : content[q] >= 128) - 1

ByteBits(b, n) == [p \in 1..n |-> (b \div Pow2(p - 1)) % 2]

\* (b0 & 0x0F) + sum over n = 1..k of (bn & 0x7F) * 2^(4 + 7(n-1)), as bits: the
\* groups do not overlap, so the sum is their concatenation
RECURSIVE ExactGroups(_, _, _)
ExactGroups(content, n, k) ==
    IF n > k THEN <<>> ELSE ByteBits(content[n + 1], 7) \o ExactGroups(content, n + 1, k)

ExactSize(content, k) == ByteBits(content[1], 4) \o ExactGroups(content, 1, k)

\* a uint64 and a bit sequence of any length state the same number
SameValue(u64, bits) ==
    /\ \A p \in 1..U64Bits : u64[p] = (IF p <= Len(bits) THEN bits[p] ELSE 0)
    /\ \A p \in (U64Bits + 1)..Len(bits) : bits[p] = 0

\* the object kind of a 3-bit type field: 5 is not a kind
KindOfTypeBits(t) == IF t = 5 THEN OBJ_INVALID ELSE t

ValidKinds == {OBJ_COMMIT, OBJ_TREE, OBJ_BLOB, OBJ_TAG, OBJ_OFS_DELTA, OBJ_REF_DELTA}

DecodesExactly(k) ==
    /\ ~psize.err
    /\ psize.bytesRead = k + 1
    /\ psize.objType = KindOfTypeBits((buf[1] \div 16) % 8)
    /\ SameValue(psize.length, ExactSize(buf, k))

DecodesTo(n, t, r) ==
    ~psize.err /\ psize.length = U64(n) /\ psize.objType = t /\ psize.bytesRead = r

\* C9 as stated: every byte sequence with a first bit-7-clear byte at index k
\* decodes to k+1 bytes read, the kind of bits 6..4 and the exact sum of the
\* groups.
C9_EveryTerminatedHeaderDecodes ==
    psize.run /\ FirstClear(buf) >= 0 => DecodesExactly(FirstClear(buf))

\* the exact sum is below 2^64
Fits64(bits) == \A p \in (U64Bits + 1)..Len(bits) : bits[p] = 0

\* C9, amended: the same for every header with k <= 9 whose exact sum is below
\* 2^64; a header of k >= 10 is refused; the encoding of every u in [0, 2^35)
\* decodes to u and its byte count; the test's vectors decode as the tests
\* assert.
C9_HeaderDecodesWhatFits ==
    psize.run =>
        /\ (/\ FirstClear(buf) >= 0
            /\ FirstClear(buf) <= 9
            /\ Fits64(ExactSize(buf, FirstClear(buf)))) => DecodesExactly(FirstClear(buf))
        /\ FirstClear(buf) >= 10 => psize.err
        /\ encU # NoU =>
              ~psize.err /\ SameValue(psize.length, encU) /\ psize.bytesRead = Len(buf)
        /\ buf = <<10>> => DecodesTo(10, OBJ_INVALID, 1)
        /\ buf = <<138, 66>> => DecodesTo(1066, OBJ_INVALID, 2)
        /\ buf = <<130, 129, 3>> => DecodesTo(6162, OBJ_INVALID, 3)
        /\ buf = <<150, 10>> => DecodesTo(166, OBJ_COMMIT, 2)
        /\ buf = <<0>> => DecodesTo(0, OBJ_INVALID, 1)

\* a ten-byte header whose size reaches bit 63 has been decoded
C9_Witness ==
    /\ psize.run /\ ~psize.err
    /\ FirstClear(buf) = 9 /\ psize.length[U64Bits] = 1

\* C10: the type field values 0, 1, 2, 3, 4, 6 and 7 decode to a valid kind and
\* 5 decodes to Invalid, in packObjectSize and in convertToObjectType.
C10_TypeFieldDecoding ==
    /\ (psize.run /\ ~psize.err) =>
          LET t == (buf[1] \div 16) % 8
          IN IF t = 5 THEN psize.objType = OBJ_INVALID
             ELSE psize.objType # OBJ_INVALID /\ psize.objType \in ValidKinds
    /\ (cvt.run /\ ~cvt.err) =>
          IF cvt.s = 5 THEN cvt.out = OBJ_INVALID
          ELSE cvt.out # OBJ_INVALID /\ cvt.out \in ValidKinds

(***************************************************************************)
(* What the claims about the pack parser speak of.                         *)
(***************************************************************************)
\* C5: ReadPackFile returns for every input (a record list or an error): it
\* never panics and never reads past the end of the buffer.
C5_ReadPackFileReturnsForEveryInput == outcome # "panic" /\ ~beyond

BigEndian32(b) == ((b[1] * 256 + b[2]) * 256 + b[3]) * 256 + b[4]

\* the header as section 4.3 orders its checks, for a buffer that holds the
\* bytes each check reads; "short" when it does not
HeaderShort == [res |-> "short"]

HeaderChecks(c) ==
    IF Len(c) < 8 THEN HeaderShort
    ELSE
    LET off == IF SubSeq(c, 1, 8) = NakLine THEN 8 ELSE 0
        has(n) == Len(c) >= off + n
        field(a) == SubSeq(c, off + a + 1, off + a + 4)
    IN
    IF ~has(4) THEN HeaderShort
    ELSE IF field(0) # <<80, 65, 67, 75>> THEN [res |-> "error", why |-> "magic"]
    ELSE IF ~has(8) THEN HeaderShort
    ELSE IF BigEndian32(field(4)) \notin {2, 3} THEN [res |-> "error", why |-> "version"]
    ELSE IF ~has(12) THEN HeaderShort
    ELSE [res |-> "ok", count |-> BigEndian32(field(8)), consumed |-> off + 12,
          nak |-> off = 8]

\* C6: on a buffer that holds the header bytes, readPackFileHeader skips the
\* acknowledgement line when it is there, then refuses a wrong magic, then a
\* version other than 2 and 3, and otherwise returns the object count and 12
\* bytes consumed, 20 with the acknowledgement line.
C6_HeaderChecksInOrder ==
    (hdr.run /\ HeaderChecks(packBytes).res # "short") =>
        LET want == HeaderChecks(packBytes)
        IN /\ hdr.outcome = want.res
           /\ want.res = "error" => hdr.why = want.why
           /\ want.res = "ok" =>
                 /\ hdr.numOfObjects = want.count
                 /\ hdr.offset = want.consumed
                 /\ hdr.offset = IF want.nak THEN 20 ELSE 12

\* the header of a pack of two objects that follows an acknowledgement line
\* has been read
C6_Witness ==
    hdr.run /\ hdr.outcome = "ok" /\ hdr.offset = 20 /\ hdr.numOfObjects = 2

\* the bytes a record of the inputs takes: its header, the base hash of a
\* ref-delta, and a frame of one stored block around the payload
RecordSpan(c, start, obj) ==
    FirstClear(Drop(c, start)) + 1
        + (IF obj.ObjectType = OBJ_REF_DELTA THEN 20 ELSE 0)
        + 11 + Len(obj.Content)

\* C7: a successful parse returns the declared number of records, each with
\* Size = len(Content); the cursor advances by each record's bytes, strictly
\* increases and stays within the buffer; and a record that runs past the
\* end of the buffer ends the parse with an error that names its index.
C7_RecordsCursorAndTruncation ==
    /\ outcome = "ok" =>
          /\ Len(packObjs) = hdr.numOfObjects
          /\ \A k \in 1..Len(packObjs) : packObjs[k].Size = Len(packObjs[k].Content)
    /\ offset <= Len(body)
    /\ objIdx > 0 =>
          /\ offset > prevOffset
          /\ offset = prevOffset + RecordSpan(body, prevOffset, packObjs[objIdx])
    /\ (ppc = "done" /\ cutRec >= 0 /\ objIdx = cutRec) =>
          outcome = "error" /\ errAt = cutRec

\* C8: the records depend on the bytes up to the end of the last declared
\* record's frame only: the parse of the input equals the parse of the input
\* without what follows that frame.
C8_TrailingBytesDoNotMatter ==
    ppc = "done" =>
        /\ LET ref == ReadPackFile(packBase, spare)
           IN ref.outcome = "ok" => outcome = "ok" /\ packObjs = ref.objects
        /\ outcome = "ok" =>
              LET ref == ReadPackFile(SubSeq(packBytes, 1, hdr.offset + offset), spare)
              IN ref.outcome = "ok" /\ ref.objects = packObjs

\* a pack of two records followed by twenty more bytes has been parsed
C8_Witness ==
    /\ ppc = "done" /\ outcome = "ok"
    /\ Len(packObjs) = 2
    /\ Len(packBytes) = Len(packBase) + 20
    /\ hdr.offset + offset = Len(packBase)


(***************************************************************************)
(* Loose objects: the storage format, the object id and the store.  The    *)
(* store maps an object id to the bytes of the file at its path.           *)
(***************************************************************************)
\* fmt.Sprintf("%d", n)
RECURSIVE Decimal(_)
Decimal(n) == IF n < 10 THEN <<48 + n>> ELSE Decimal(n \div 10) \o <<48 + (n % 10)>>

FormatGitObjectContent(typ, cont) == typ \o <<32>> \o Decimal(Len(cont)) \o <<0>> \o cont

\* The 40 hex characters of a SHA-1.  SHA-1 is taken to be free of
\* collisions: the digest of a content is the content itself, tagged, and
\* only its length is the string's.
HashLen == 40

CalculateEncodedSHA(cont) == [len |-> HashLen, of |-> cont]

\* the empty string in the Base of a record that is no delta
NoHash == [len |-> 0, of |-> <<>>]

\* the names of the kinds as bytes
NameTree == <<116, 114, 101, 101>>
NameBlob == <<98, 108, 111, 98>>
NameCommit == <<99, 111, 109, 109, 105, 116>>
NameTag == <<116, 97, 103>>
NameOfsDelta == <<111, 102, 115, 100, 101, 108, 116, 97>>
NameRefDelta == <<114, 101, 102, 100, 101, 108, 116, 97>>

\* GitObjectType.String
String(o) ==
    CASE o = OBJ_TREE -> NameTree
      [] o = OBJ_BLOB -> NameBlob
      [] o = OBJ_COMMIT -> NameCommit
      [] o = OBJ_TAG -> NameTag
      [] o = OBJ_OFS_DELTA -> NameOfsDelta
      [] o = OBJ_REF_DELTA -> NameRefDelta
      [] OTHER -> <<105, 110, 118, 97, 108, 105, 100, 40>> \o Decimal(o) \o <<41, 41>>

StringToObjectType_TreeAsBlob(str) ==
    CASE str = NameTree -> OBJ_BLOB
      [] str = NameBlob -> OBJ_BLOB
      [] str = NameCommit -> OBJ_COMMIT
      [] str = NameTag -> OBJ_TAG
      [] str = NameOfsDelta -> OBJ_OFS_DELTA
      [] str = NameRefDelta -> OBJ_REF_DELTA
      [] OTHER -> OBJ_INVALID

StringToObjectType(str) ==
    CASE str = NameTree -> OBJ_TREE
      [] str = NameBlob -> OBJ_BLOB
      [] str = NameCommit -> OBJ_COMMIT
      [] str = NameTag -> OBJ_TAG
      [] str = NameOfsDelta -> OBJ_OFS_DELTA
      [] str = NameRefDelta -> OBJ_REF_DELTA
      [] OTHER -> OBJ_INVALID

\* st with the file of hash h replaced by, or created as, file
Put(st, h, file) == [x \in DOMAIN st \cup {h} |-> IF x = h THEN file ELSE st[x]]

\* What the zlib writer leaves in the file: a zlib stream of the content.
\* The stream is written as one stored block; the reader inflates any.
WriteCompactContent(cont) == ZFrame(cont)

\* zlib.NewReader and io.ReadAll over the file
ReadCompressed(file) ==
    LET z == findAndDecompress(file)
    IN [err |-> z.err, content |-> z.decompressed]

ZeroPos_LastNul(cont, p) ==
    IF \A q \in (p + 1)..Len(cont) : cont[q] # 0 THEN Len(cont)
    ELSE (CHOOSE q \in (p + 1)..Len(cont) :
              cont[q] = 0 /\ \A x \in (q + 1)..Len(cont) : cont[x] # 0) - 1

\* the position of the first NUL of content, len(content) when it has none
RECURSIVE ZeroPos(_, _)
ZeroPos(cont, p) ==
    IF p >= Len(cont) \/ cont[p + 1] = 0 THEN p ELSE ZeroPos(cont, p + 1)

ReadResult(err, panic, cont, kind) ==
    [err |-> err, panic |-> panic, content |-> cont, kind |-> kind]

\* the end of ReadObjectFile: the header content[:zeroPos] is split at its
\* spaces and must have two parts; content[zeroPos+1:] panics when there is
\* no NUL
splitObject(content, zeroPos, spaces) ==
    IF Cardinality(spaces) # 1 THEN ReadResult(TRUE, FALSE, <<>>, <<>>)
    ELSE IF zeroPos + 1 > Len(content) THEN ReadResult(TRUE, TRUE, <<>>, <<>>)
    ELSE ReadResult(FALSE, FALSE, Drop(content, zeroPos + 1),
                    SubSeq(content, 1, (CHOOSE p \in spaces : TRUE) - 1))

splitObjectAt(content, zeroPos) ==
    splitObject(content, zeroPos, {p \in 1..zeroPos : content[p] = 32})

readObject(c) ==
    IF c.err THEN ReadResult(TRUE, FALSE, <<>>, <<>>)
    ELSE splitObjectAt(c.content, ZeroPos(c.content, 0))

ReadObjectFile(file) == readObject(ReadCompressed(file))


(***************************************************************************)
(* readVarInt and applyDelta.  An int of readVarInt is held as the bits of *)
(* a 64-bit word: its groups of 7 bits do not overlap, so the bitwise or   *)
(* of the code is a sum, and with shift < 63 bit 63 stays clear.           *)
(***************************************************************************)
VarIntErr == [err |-> TRUE, size |-> U64(0), newOffset |-> 0]

VarIntShiftLimit_OneByte == 14 - 7
VarIntShiftLimit_TenBytes == 63 + 7
VarIntShiftLimit == 63

RECURSIVE readVarIntLoop(_, _, _, _)
readVarIntLoop(data, off, result, shift) ==
    IF off >= Len(data) THEN VarIntErr
    ELSE LET b == data[off + 1]
             r == U64Add(result, U64MulPow2(b % 128, shift))
         IN IF b < 128 THEN [err |-> FALSE, size |-> r, newOffset |-> off + 1]
            ELSE IF shift + 7 >= VarIntShiftLimit THEN VarIntErr
            ELSE readVarIntLoop(data, off + 1, r, shift + 7)

readVarInt(data, off) == readVarIntLoop(data, off, U64(0), 0)

Bit(b, k) == (b \div Pow2(k)) % 2 = 1

DefaultCopySize_None == 65536 - 65536
DefaultCopySize == 65536

\* The offset bytes of a copy command, bits 0..3 of the command byte.  The
\* byte of bit 3 is kept apart (high): an offset of 2^24 or more is past
\* every base of the model.
RECURSIVE readCopyOffset(_, _, _, _, _, _)
readCopyOffset(d, pos, cmd, i, low, high) ==
    IF i > 3 THEN [err |-> FALSE, next |-> pos, low |-> low, high |-> high]
    ELSE IF ~Bit(cmd, i) THEN readCopyOffset(d, pos, cmd, i + 1, low, high)
    ELSE IF pos >= Len(d) THEN [err |-> TRUE, next |-> pos, low |-> 0, high |-> 0]
    ELSE IF i = 3 THEN readCopyOffset(d, pos + 1, cmd, i + 1, low, d[pos + 1])
    ELSE readCopyOffset(d, pos + 1, cmd, i + 1, low + d[pos + 1] * Pow2(8 * i), high)

\* the size bytes, bits 4..6: the first byte read replaces the default size
RECURSIVE readCopySize(_, _, _, _, _, _)
readCopySize(d, pos, cmd, i, size, sizeBytesRead) ==
    IF i > 2 THEN [err |-> FALSE, next |-> pos, size |-> size]
    ELSE IF ~Bit(cmd, 4 + i) THEN readCopySize(d, pos, cmd, i + 1, size, sizeBytesRead)
    ELSE IF pos >= Len(d) THEN [err |-> TRUE, next |-> pos, size |-> 0]
    ELSE IF i = 0 \/ sizeBytesRead = 0
    THEN readCopySize(d, pos + 1, cmd, i + 1, d[pos + 1] * Pow2(8 * i), sizeBytesRead + 1)
    ELSE readCopySize(d, pos + 1, cmd, i + 1, size + d[pos + 1] * Pow2(8 * i),
                      sizeBytesRead + 1)

literalLength_High(commandByte) == (commandByte \div 2) % 64

\* length := int(commandByte & 0x7f)
literalLength(commandByte) == commandByte % 128

DeltaResult(err, panic, why, out) == [err |-> err, panic |-> panic, why |-> why, out |-> out]

\* The command loop of applyDelta from deltaOffset off with result built:
\* applyDeltaLoop reads the command byte, copyOffsetRead and copySizeRead
\* follow a copy command once its offset and its size are read.
RECURSIVE applyDeltaLoop(_, _, _, _)
RECURSIVE copyOffsetRead(_, _, _, _, _)
RECURSIVE copySizeRead(_, _, _, _, _)
applyDeltaLoop(baseContent, d, off, result) ==
    IF off >= Len(d) THEN DeltaResult(FALSE, FALSE, "", result)
    ELSE IF d[off + 1] >= 128
    THEN copyOffsetRead(baseContent, d, d[off + 1], result,
                        readCopyOffset(d, off + 1, d[off + 1], 0, 0, 0))
    ELSE IF literalLength(d[off + 1]) = 0 THEN DeltaResult(TRUE, FALSE, "literal0", <<>>)
    ELSE IF off + 1 + literalLength(d[off + 1]) > Len(d)
    THEN DeltaResult(TRUE, FALSE, "literal", <<>>)
    ELSE applyDeltaLoop(baseContent, d, off + 1 + literalLength(d[off + 1]),
                        result \o SubSeq(d, off + 2, off + 1 + literalLength(d[off + 1])))

copyOffsetRead(baseContent, d, commandByte, result, co) ==
    IF co.err THEN DeltaResult(TRUE, FALSE, "offsetbyte", <<>>)
    ELSE copySizeRead(baseContent, d, result, co,
                      readCopySize(d, co.next, commandByte, 0, DefaultCopySize, 0))

copySizeRead(baseContent, d, result, co, cs) ==
    IF cs.err THEN DeltaResult(TRUE, FALSE, "sizebyte", <<>>)
    ELSE IF co.high > 0 \/ co.low + cs.size > Len(baseContent)
    THEN DeltaResult(TRUE, FALSE, "bounds", <<>>)
    ELSE applyDeltaLoop(baseContent, d, cs.next,
                        result \o SubSeq(baseContent, co.low + 1, co.low + cs.size))

\* make([]byte, 0, size) panics when size is above the largest allocation,
\* 2^48 bytes
MakePanics(size) ==
    \/ \E p \in 50..U64Bits : size[p] = 1
    \/ size[49] = 1 /\ \E p \in 1..48 : size[p] = 1

resolvedSizeCheck_Unchecked(size, r) == r

\* the check after the loop: len(result) != size
resolvedSizeCheck(size, r) ==
    IF r.err THEN r
    ELSE IF U64(Len(r.out)) # size THEN DeltaResult(TRUE, FALSE, "resolved", <<>>)
    ELSE r

\* applyDelta once the result size v2 is read
applyDeltaCommands(baseContent, deltaInstructions, v2) ==
    IF v2.err THEN DeltaResult(TRUE, FALSE, "resultsize", <<>>)
    ELSE IF MakePanics(v2.size) THEN DeltaResult(TRUE, TRUE, "makeslice", <<>>)
    ELSE resolvedSizeCheck(v2.size,
             applyDeltaLoop(baseContent, deltaInstructions, v2.newOffset, <<>>))

\* applyDelta once the base size v1 is read
applyDeltaSizes(baseContent, deltaInstructions, v1) ==
    IF v1.err THEN DeltaResult(TRUE, FALSE, "basesize", <<>>)
    ELSE IF v1.size # U64(Len(baseContent)) THEN DeltaResult(TRUE, FALSE, "mismatch", <<>>)
    ELSE applyDeltaCommands(baseContent, deltaInstructions,
                            readVarInt(deltaInstructions, v1.newOffset))

applyDelta(baseContent, deltaInstructions) ==
    applyDeltaSizes(baseContent, deltaInstructions, readVarInt(deltaInstructions, 0))

(***************************************************************************)
(* WriteObjects.  A round that writes a file may meet a fault of the file  *)
(* system: the file cannot be created ("create"), or it is created and the *)
(* write to it fails ("write").                                            *)
(***************************************************************************)
Faults == {"none", "create", "write"}

WriteResult(err, panic, cause, st, files) ==
    [err |-> err, panic |-> panic, cause |-> cause, store |-> st, files |-> files]

createAndWrite_Exclusive(st, fullContent, hash, fault) ==
    IF hash.len # HashLen \/ fault = "create" \/ hash \in DOMAIN st
    THEN WriteResult(TRUE, FALSE, "create", st, <<>>)
    ELSE IF fault = "write" THEN WriteResult(TRUE, FALSE, "write", Put(st, hash, <<>>), <<>>)
    ELSE WriteResult(FALSE, FALSE, "", Put(st, hash, WriteCompactContent(fullContent)),
                     <<[hash |-> hash, file |-> WriteCompactContent(fullContent)]>>)

\* writeSingleObject once the hash is known; os.Create empties a file that
\* exists
createAndWrite(st, fullContent, hash, fault) ==
    IF hash.len # HashLen \/ fault = "create" THEN WriteResult(TRUE, FALSE, "create", st, <<>>)
    ELSE IF fault = "write" THEN WriteResult(TRUE, FALSE, "write", Put(st, hash, <<>>), <<>>)
    ELSE WriteResult(FALSE, FALSE, "", Put(st, hash, WriteCompactContent(fullContent)),
                     <<[hash |-> hash, file |-> WriteCompactContent(fullContent)]>>)

writeFormatted(st, fullContent, fault) ==
    createAndWrite(st, fullContent, CalculateEncodedSHA(fullContent), fault)

\* writeSingleObject on the store st
writeSingleObject(st, obj, fault) ==
    writeFormatted(st, FormatGitObjectContent(String(obj.ObjectType), obj.Content), fault)

\* line 384: the records the first loop puts aside
IsRefDelta_OfsDelta(obj) == obj.ObjectType = OBJ_OFS_DELTA
IsRefDelta(obj) == obj.ObjectType = OBJ_REF_DELTA

\* writeDeltaObject once the delta is applied: the kind of the base
writeResolved(st, baseTypeStr, resolved, fault) ==
    IF resolved.err THEN WriteResult(TRUE, resolved.panic, "delta", st, <<>>)
    ELSE IF StringToObjectType(baseTypeStr) = OBJ_INVALID
    THEN WriteResult(TRUE, FALSE, "basetype", st, <<>>)
    ELSE writeSingleObject(st, [ObjectType |-> StringToObjectType(baseTypeStr), Size |-> 0,
                                Content |-> resolved.out, Base |-> NoHash], fault)

\* writeDeltaObject once the base object is read
resolveOnBase(st, obj, base, fault) ==
    IF base.err THEN WriteResult(TRUE, base.panic, "read", st, <<>>)
    ELSE writeResolved(st, base.kind, applyDelta(base.content, obj.Content), fault)

writeDeltaObject(st, obj, fault) ==
    IF obj.Base.len # HashLen THEN WriteResult(TRUE, FALSE, "hash", st, <<>>)
    ELSE IF obj.Base \notin DOMAIN st THEN WriteResult(TRUE, FALSE, "nosuch", st, <<>>)
    ELSE resolveOnBase(st, obj, ReadObjectFile(st[obj.Base]), fault)


(***************************************************************************)
(* Inputs of Spec: every ordering of up to MaxRecs records of a pool.      *)
(***************************************************************************)
MaxRecs == 3

ContA == <<97>>
ContZ == <<122>>

\* base of 1 byte, result of 2: copy 1 byte from offset 0, then the literal b
DeltaAppendB == <<1, 2, 144, 1, 1, 98>>
\* declares a base of 2 bytes
DeltaWrongBase == <<2, 1, 144, 1>>

ObjectId(o, cont) == CalculateEncodedSHA(FormatGitObjectContent(String(o), cont))

WritePool ==
    { GitObject(OBJ_BLOB, ContA, NoHash),
      GitObject(OBJ_TREE, ContA, NoHash),
      GitObject(OBJ_OFS_DELTA, ContA, NoHash),
      GitObject(OBJ_INVALID, ContA, NoHash),
      GitObject(OBJ_REF_DELTA, DeltaAppendB, ObjectId(OBJ_BLOB, ContA)),
      GitObject(OBJ_REF_DELTA, DeltaAppendB, ObjectId(OBJ_TREE, ContA)),
      GitObject(OBJ_REF_DELTA, DeltaWrongBase, ObjectId(OBJ_BLOB, ContA)),
      GitObject(OBJ_REF_DELTA, DeltaAppendB, ObjectId(OBJ_BLOB, ContZ)) }

Orderings(pool, max) ==
    { q \in UNION {[1..n -> pool] : n \in 0..max} :
         \A a, b \in 1..Len(q) : a # b => q[a] # q[b] }

WriteInputs == Orderings(WritePool, MaxRecs)

StoredObject(o, cont) ==
    Put(<<>>, ObjectId(o, cont), WriteCompactContent(FormatGitObjectContent(String(o), cont)))

\* the store before the call: empty, or holding the blob z
InitialStores == {<<>>, StoredObject(OBJ_BLOB, ContZ)}

Init ==
    /\ objects \in WriteInputs
    /\ store0 \in InitialStores
    /\ store = store0
    /\ prevStore = store0
    /\ wpc = IF Len(objects) = 0 THEN "done" ELSE "pass1"
    /\ wi = 0
    /\ deltas = <<>>
    /\ deltaAt = <<>>
    /\ wj = 0
    /\ werr = NoErr
    /\ lastOp = "none"
    /\ wrote = <<>>
    /\ SizeIdle
    /\ PackIdle
    /\ RestIdle

\* where the first loop goes after the round of objects[wi]
AfterPass1(ds) ==
    IF wi + 1 < Len(objects) THEN "pass1" ELSE IF Len(ds) = 0 THEN "done" ELSE "pass2"

Failure(r, pass, index) ==
    [failed |-> TRUE, panic |-> r.panic, pass |-> pass, index |-> index, cause |-> r.cause]

\* a round of the first loop on a ref-delta: it is put aside
CollectDelta ==
    /\ wpc = "pass1"
    /\ IsRefDelta(objects[wi + 1])
    /\ deltas' = Append(deltas, objects[wi + 1])
    /\ deltaAt' = Append(deltaAt, wi)
    /\ wi' = wi + 1
    /\ wpc' = AfterPass1(deltas')
    /\ prevStore' = store
    /\ lastOp' = "defer"
    /\ UNCHANGED <<objects, store0, store, wj, werr, wrote, sizeVars, packVars, restVars>>

\* the store and the record of the files written after a round that
\* returned r
Written(r) ==
    /\ store' = r.store
    /\ wrote' = wrote \o r.files
    /\ prevStore' = store

\* a round of the first loop on any other record: writeSingleObject
WriteNonDeltaRound(r) ==
    /\ Written(r)
    /\ werr' = IF r.err THEN Failure(r, 1, wi) ELSE werr
    /\ wi' = IF r.err THEN wi ELSE wi + 1
    /\ wpc' = IF r.err THEN "done" ELSE AfterPass1(deltas)
    /\ lastOp' = IF r.err THEN "fail" ELSE "single"

WriteNonDelta ==
    /\ wpc = "pass1"
    /\ ~IsRefDelta(objects[wi + 1])
    /\ \E fault \in Faults :
          WriteNonDeltaRound(writeSingleObject(store, objects[wi + 1], fault))
    /\ UNCHANGED <<objects, store0, deltas, deltaAt, wj, sizeVars, packVars, restVars>>

\* a round of the second loop: writeDeltaObject
ResolveDeltaRound(r) ==
    /\ Written(r)
    /\ werr' = IF r.err THEN Failure(r, 2, wj) ELSE werr
    /\ wj' = IF r.err THEN wj ELSE wj + 1
    /\ wpc' = IF r.err \/ wj + 1 >= Len(deltas) THEN "done" ELSE "pass2"
    /\ lastOp' = IF r.err THEN "fail" ELSE "delta"

ResolveDelta ==
    /\ wpc = "pass2"
    /\ \E fault \in Faults :
          ResolveDeltaRound(writeDeltaObject(store, deltas[wj + 1], fault))
    /\ UNCHANGED <<objects, store0, wi, deltas, deltaAt, sizeVars, packVars, restVars>>

Next == CollectDelta \/ WriteNonDelta \/ ResolveDelta

Spec == Init /\ [][Next]_vars


(***************************************************************************)
(* What the claims about WriteObjects speak of.                            *)
(***************************************************************************)
LooseTypes == {OBJ_COMMIT, OBJ_TREE, OBJ_BLOB, OBJ_TAG}
LooseNames == {NameCommit, NameTree, NameBlob, NameTag}

\* the file an object of kind name and content cont is stored as
LooseFile(name, cont) ==
    WriteCompactContent(name \o <<32>> \o Decimal(Len(cont)) \o <<0>> \o cont)

\* the id of that object: the SHA-1 of "kind length NUL content"
LooseId(name, cont) ==
    CalculateEncodedSHA(name \o <<32>> \o Decimal(Len(cont)) \o <<0>> \o cont)

\* record d of objs is a ref-delta on record m of objs, which is no delta,
\* and is well-formed for it
DeltaOn(objs, d, m) ==
    /\ objs[d].ObjectType = OBJ_REF_DELTA
    /\ objs[m].ObjectType \in LooseTypes
    /\ objs[d].Base = LooseId(String(objs[m].ObjectType), objs[m].Content)
    /\ ~applyDelta(objs[m].Content, objs[d].Content).err

BasesAreRecords(objs) ==
    \A d \in 1..Len(objs) :
        objs[d].ObjectType = OBJ_REF_DELTA => \E m \in 1..Len(objs) : DeltaOn(objs, d, m)

Stored(name, cont) ==
    /\ LooseId(name, cont) \in DOMAIN store
    /\ store[LooseId(name, cont)] = LooseFile(name, cont)

FileSystemFault == werr.failed /\ werr.cause \in {"create", "write"}

\* C1: no ref-delta is resolved before every record that is no ref-delta
\* has been written; and when each ref-delta's base is a non-delta record of
\* the sequence and the delta is well-formed for it, WriteObjects succeeds
\* (the file system not failing) for every ordering of the records, with
\* every delta's result in the store.
C1_DeltasAfterAllBases ==
    /\ (wpc = "pass2" \/ wj > 0) =>
          /\ wi = Len(objects)
          /\ \A k \in 1..Len(objects) :
                objects[k].ObjectType # OBJ_REF_DELTA =>
                    Stored(String(objects[k].ObjectType), objects[k].Content)
    /\ (wpc = "done" /\ BasesAreRecords(objects) /\ ~FileSystemFault) =>
          /\ ~werr.failed
          /\ \A d, m \in 1..Len(objects) :
                DeltaOn(objects, d, m) =>
                    Stored(String(objects[m].ObjectType),
                           applyDelta(objects[m].Content, objects[d].Content).out)

\* WriteObjects has returned nil for three records, the first a ref-delta on
\* the third
C1_Witness ==
    /\ wpc = "done" /\ ~werr.failed
    /\ Len(objects) = 3
    /\ BasesAreRecords(objects)
    /\ DeltaOn(objects, 1, 3)
    /\ store0 = <<>>

\* C2: whatever the records and whether the call fails or not, every object
\* in the store is a commit, tree, blob or tag, and a call on a record of
\* kind OffsetDelta or Invalid reports an error.
C2_OnlyLooseKindsInStore ==
    /\ \A h \in DOMAIN store :
          \/ store[h] = <<>>
          \/ LET o == ReadObjectFile(store[h]) IN ~o.err /\ o.kind \in LooseNames
    /\ (wpc = "done" /\ ~werr.failed) =>
          \A k \in 1..Len(objects) :
              objects[k].ObjectType \notin {OBJ_OFS_DELTA, OBJ_INVALID}

\* the index in objects of the record whose round failed
OffendingIndex == IF werr.pass = 1 THEN wi ELSE deltaAt[wj + 1]

\* C3: a failed call stops at the record it failed on and returns the index
\* of that record in objects; nothing is written after the failure (the
\* file of the failed round may exist, empty), and what was written before
\* it is in the store unchanged.
C3_FirstErrorWithRecordIndex ==
    (wpc = "done" /\ werr.failed) =>
        /\ werr.index = OffendingIndex
        /\ \A k \in 1..Len(wrote) :
              /\ wrote[k].hash \in DOMAIN store
              /\ store[wrote[k].hash] = wrote[k].file
        /\ \A h \in DOMAIN store :
              \/ h \in DOMAIN store0 /\ store[h] = store0[h]
              \/ \E k \in 1..Len(wrote) : wrote[k].hash = h
              \/ store[h] = <<>>

\* C4: the round that resolves a ref-delta stores, under the SHA-1 of
\* "kind length NUL content", an object of the kind of the base it read
\* whose content is applyDelta(base content, delta instructions); no other
\* file changes.
C4_ResolvedObjectHasBaseKind ==
    lastOp = "delta" =>
        LET delta == deltas[wj]
            base == ReadObjectFile(prevStore[delta.Base])
            cont == applyDelta(base.content, delta.Content).out
            id == LooseId(base.kind, cont)
        IN /\ id \in DOMAIN store
           /\ ReadObjectFile(store[id]) = ReadResult(FALSE, FALSE, cont, base.kind)
           /\ DOMAIN store = DOMAIN prevStore \cup {id}
           /\ \A h \in DOMAIN prevStore : h # id => store[h] = prevStore[h]

\* a ref-delta on the tree "a" has been resolved to the tree "ab"
C4_Witness ==
    /\ lastOp = "delta"
    /\ deltas[wj].Base = LooseId(NameTree, ContA)
    /\ LooseId(NameTree, <<97, 98>>) \in DOMAIN store \ DOMAIN prevStore
    /\ ReadObjectFile(store[LooseId(NameTree, <<97, 98>>)]).content = <<97, 98>>


(***************************************************************************)
(* SpecDelta: one call of applyDelta.  An instruction stream is a base     *)
(* size, a result size and up to MaxCmds commands; or the delta that       *)
(* copies a whole base.                                                    *)
(***************************************************************************)
MaxCmds == 2
MaxIdentityLen == 257

RECURSIVE EncodeVarInt(_)
EncodeVarInt(n) ==
    IF n < 128 THEN <<n>> ELSE <<128 + (n % 128)>> \o EncodeVarInt(n \div 128)

DeltaBases == {<<>>, <<97>>, <<97, 98, 99>>}

\* the length of the base, in one byte and in two, and a wrong length
BaseSizeBytes(base) ==
    {EncodeVarInt(Len(base)), <<128 + Len(base), 0>>, EncodeVarInt(Len(base) + 1)}

\* 0..3, 2^63 - 1 in nine bytes, and ten bytes that never end
ResultSizeBytes ==
    {EncodeVarInt(n) : n \in 0..3} \cup {Repeat(255, 8) \o <<127>>, Repeat(255, 9) \o <<1>>}

DeltaCmdPool ==
    { <<1, 120>>,        \* literal x
      <<0>>,             \* literal of length 0
      <<3, 120>>,        \* literal of 3 bytes, one present
      <<144, 1>>,        \* copy offset 0 size 1
      <<145, 1, 2>>,     \* copy offset 1 size 2
      <<128>>,           \* copy offset 0, default size
      <<145, 1>>,        \* copy with offset byte 1, its size byte missing
      <<152, 1, 1>> }    \* copy offset 2^24 size 1

CommandStreams == {Flatten(q) : q \in UNION {[1..n -> DeltaCmdPool] : n \in 0..MaxCmds}}

GeneratedDeltas ==
    UNION { { [base |-> b, instr |-> bs \o rs \o cs] :
                bs \in BaseSizeBytes(b), rs \in ResultSizeBytes, cs \in CommandStreams } :
            b \in DeltaBases }

\* the size bytes of a copy command for size n < 2^24: with all is FALSE
\* only the bytes that are not zero are sent
CopySizeBytes(n, all) ==
    LET b0 == n % 256
        b1 == (n \div 256) % 256
        b2 == n \div 65536
        has(b) == all \/ b # 0
    IN [cmd |-> 128 + (IF has(b0) THEN 16 ELSE 0) + (IF has(b1) THEN 32 ELSE 0)
                    + (IF has(b2) THEN 64 ELSE 0),
        bytes |-> (IF has(b0) THEN <<b0>> ELSE <<>>) \o (IF has(b1) THEN <<b1>> ELSE <<>>)
                    \o (IF has(b2) THEN <<b2>> ELSE <<>>)]

\* base size n, result size n, one copy of n bytes from offset 0
IdentityDelta(n, all) ==
    EncodeVarInt(n) \o EncodeVarInt(n) \o <<CopySizeBytes(n, all).cmd>>
        \o CopySizeBytes(n, all).bytes

SampleBase(n) == [p \in 1..n |-> (7 * p) % 251]

IdentityLens == {1, 2, 127, 128, 255, 256, MaxIdentityLen, 65536, 65537}

IdentityDeltas ==
    { [base |-> SampleBase(n), instr |-> IdentityDelta(n, all)] :
        n \in IdentityLens, all \in BOOLEAN }

ShortDeltas ==
    { [base |-> <<97>>, instr |-> i] : i \in {<<>>, <<1>>, <<129>>, <<1, 129>>} }

\* literal commands of the shortest and the longest lengths: whole, one byte
\* short, and followed by a literal, by a command byte 0 and by a copy
LiteralLens == {1, 2, 126, 127}

LiteralData(n) == [p \in 1..n |-> 65 + (p % 26)]

LiteralStreams ==
    UNION { { <<l>> \o LiteralData(l) \o after, <<l>> \o LiteralData(l - 1) } :
            l \in LiteralLens,
            after \in {<<>>, <<1, 120>>, <<0>>, <<2, 120>>, <<144, 1>>} }

LiteralDeltas ==
    { [base |-> <<97>>, instr |-> <<1>> \o EncodeVarInt(n) \o cs] :
        n \in {0, 1, 2, 3, 126, 127, 128}, cs \in LiteralStreams }

InitDelta ==
    /\ \E inp \in GeneratedDeltas \cup IdentityDeltas \cup ShortDeltas \cup LiteralDeltas :
          dBase = inp.base /\ dInstr = inp.instr
    /\ dRes = NotRun
    /\ dRes2 = NotRun
    /\ IdleBesideDelta

\* a call applyDelta(dBase, dInstr)
ApplyDelta ==
    /\ ~dRes.run
    /\ dRes' = [run |-> TRUE] @@ applyDelta(dBase, dInstr)
    /\ UNCHANGED <<dBase, dInstr, dRes2, besideDelta>>

NextDelta == ApplyDelta

SpecDelta == InitDelta /\ [][NextDelta]_vars


(***************************************************************************)
(* What the claims about applyDelta speak of: the delta format read        *)
(* command by command.  Sizes and offsets are integers here, which holds   *)
(* every value below 2^28; a longer size is "large".                       *)
(***************************************************************************)
\* the variable-length size at pos (from 0): "none" when the stream ends
\* first, "small" with its value when it has up to four bytes, else "large"
RECURSIVE GroupSum(_, _, _)
GroupSum(d, pos, k) ==
    IF k < 0 THEN 0 ELSE (d[pos + k + 1] % 128) * Pow2(7 * k) + GroupSum(d, pos, k - 1)

DeclaredSize(d, pos) ==
    LET k == FirstClear(Drop(d, pos))
    IN IF k < 0 THEN [kind |-> "none", val |-> 0, next |-> Len(d)]
       ELSE IF k > 3 THEN [kind |-> "large", val |-> 0, next |-> pos + k + 1]
       ELSE [kind |-> "small", val |-> GroupSum(d, pos, k), next |-> pos + k + 1]

\* the positions of the argument bytes of a copy command: bit k of cmd
\* announces a byte, the bytes follow in the order of the bits
ArgIndex(cmd, k) == Cardinality({q \in 0..(k - 1) : Bit(cmd, q)})
ArgCount(cmd) == ArgIndex(cmd, 7)

CopyArg(d, pos, cmd, k) == IF Bit(cmd, k) THEN d[pos + 2 + ArgIndex(cmd, k)] ELSE 0

CopyOffset(d, pos, cmd) ==
    CopyArg(d, pos, cmd, 0) + CopyArg(d, pos, cmd, 1) * 256
        + CopyArg(d, pos, cmd, 2) * 65536 + CopyArg(d, pos, cmd, 3) * 16777216

CopySize(d, pos, cmd) ==
    IF ~Bit(cmd, 4) /\ ~Bit(cmd, 5) /\ ~Bit(cmd, 6) THEN 65536
    ELSE CopyArg(d, pos, cmd, 4) + CopyArg(d, pos, cmd, 5) * 256
             + CopyArg(d, pos, cmd, 6) * 65536

\* what the commands from pos on produce: "ok" with the bytes, or the first
\* command that cannot be carried out
RECURSIVE Produce(_, _, _, _)
Produce(base, d, pos, out) ==
    IF pos >= Len(d) THEN [status |-> "ok", out |-> out]
    ELSE IF d[pos + 1] = 0 THEN [status |-> "literal0", out |-> <<>>]
    ELSE IF d[pos + 1] < 128
    THEN IF pos + 1 + d[pos + 1] > Len(d) THEN [status |-> "truncated", out |-> <<>>]
         ELSE Produce(base, d, pos + 1 + d[pos + 1],
                      out \o SubSeq(d, pos + 2, pos + 1 + d[pos + 1]))
    ELSE IF pos + 1 + ArgCount(d[pos + 1]) > Len(d)
    THEN [status |-> "truncated", out |-> <<>>]
    ELSE IF CopyOffset(d, pos, d[pos + 1]) + CopySize(d, pos, d[pos + 1]) > Len(base)
    THEN [status |-> "bounds", out |-> <<>>]
    ELSE Produce(base, d, pos + 1 + ArgCount(d[pos + 1]),
                 out \o SubSeq(base, CopyOffset(d, pos, d[pos + 1]) + 1,
                               CopyOffset(d, pos, d[pos + 1])
                                   + CopySize(d, pos, d[pos + 1])))

DeclaredBase == DeclaredSize(dInstr, 0)
DeclaredResult == DeclaredSize(dInstr, DeclaredBase.next)
Produced == Produce(dBase, dInstr, DeclaredResult.next, <<>>)

BaseSizeRight == DeclaredBase.kind = "small" /\ DeclaredBase.val = Len(dBase)

\* C11: applyDelta succeeds only if the declared base size is len(base) and
\* the commands produce as many bytes as the declared result size, and then
\* returns those bytes; a wrong base size is the error whatever follows it,
\* a wrong result size is the error once every command is carried out.
C11_DeclaredSizesHold ==
    dRes.run =>
        /\ ~dRes.err =>
              /\ BaseSizeRight
              /\ DeclaredResult.kind = "small"
              /\ Len(dRes.out) = DeclaredResult.val
              /\ Produced.status = "ok" /\ dRes.out = Produced.out
        /\ (DeclaredBase.kind = "small" /\ DeclaredBase.val # Len(dBase)) =>
              dRes.err /\ dRes.why = "mismatch"
        /\ (BaseSizeRight /\ DeclaredResult.kind = "small" /\ Produced.status = "ok") =>
              IF Len(Produced.out) = DeclaredResult.val
              THEN ~dRes.err
              ELSE dRes.err /\ dRes.why = "resolved"

\* a literal and a copy have produced the three declared bytes
C11_Witness ==
    /\ dRes.run /\ ~dRes.err
    /\ dBase = <<97, 98, 99>>
    /\ dInstr = <<3, 3, 1, 120, 145, 1, 2>>
    /\ dRes.out = <<120, 98, 99>>

\* C12: applyDelta never panics, and a stream whose copy command reaches
\* past the base, or that ends inside a command, is an error.
C12_CopyOutOfBoundsIsAnError ==
    dRes.run =>
        /\ ~dRes.panic
        /\ (BaseSizeRight /\ DeclaredResult.kind = "small"
              /\ Produced.status \in {"bounds", "truncated"}) => dRes.err

\* C13: the delta that declares the base's length twice and copies that many
\* bytes from offset 0 returns the base.
C13_WholeCopyReturnsBase ==
    (dRes.run /\ Len(dBase) >= 1
        /\ \E all \in BOOLEAN : dInstr = IdentityDelta(Len(dBase), all)) =>
            ~dRes.err /\ dRes.out = dBase

\* the longest base has been copied, its length sent without the zero bytes
C13_Witness ==
    /\ dRes.run /\ ~dRes.err
    /\ Len(dBase) = MaxIdentityLen
    /\ dInstr = IdentityDelta(MaxIdentityLen, FALSE)
    /\ dRes.out = dBase


(***************************************************************************)
(* SpecObject: objects are written with writeSingleObject and read back    *)
(* with GetFileFromHash and ReadObjectFile, in any order, on an object     *)
(* directory that is empty or holds files that no writeSingleObject wrote. *)
(***************************************************************************)
MaxStored == 2
MaxObjLen == 10

\* GetFileFromHash: the file at the path of objHash
GetFileFromHash(st, objHash) ==
    IF objHash.len # HashLen THEN [err |-> TRUE, why |-> "invalid", file |-> <<>>]
    ELSE IF objHash \notin DOMAIN st THEN [err |-> TRUE, why |-> "nosuch", file |-> <<>>]
    ELSE [err |-> FALSE, why |-> "", file |-> st[objHash]]

\* GetFileFromHash, then ReadObjectFile on the file, as the callers do
readOpened(f) ==
    IF f.err THEN [why |-> f.why] @@ ReadResult(TRUE, FALSE, <<>>, <<>>)
    ELSE [why |-> "read"] @@ ReadObjectFile(f.file)

readByHash(st, objHash) == readOpened(GetFileFromHash(st, objHash))

ObjContents ==
    {<<>>, <<0>>, <<32>>, <<97>>, <<97, 0, 32, 0, 98>>, Repeat(120, MaxObjLen)}

\* decompressed payloads that FormatGitObjectContent does not produce
OddPayloads ==
    { <<98, 108, 111, 98, 32, 49>>,                 \* "blob 1"
      <<98, 108, 111, 98>>,                         \* "blob"
      <<>>,
      <<98, 108, 111, 98, 32, 49, 32, 50, 0, 120>>, \* "blob 1 2" NUL "x"
      <<0, 98, 108, 111, 98, 32, 49>>,              \* NUL "blob 1"
      <<32, 0, 120>>,                               \* " " NUL "x"
      <<98, 108, 111, 98, 32, 51, 0, 97>> }         \* "blob 3" NUL "a"

\* files that are no zlib stream, or a stream with a wrong checksum
OddFiles == {<<>>, <<1, 2, 3>>, ZFrameBadSum(<<98, 108, 111, 98, 32, 49, 0, 97>>)}

PlantedFiles == {ZFrame(d) : d \in OddPayloads} \cup OddFiles

\* the id a planted file lies under: the id of no formatted object
PlantedId(file) == CalculateEncodedSHA(<<255>> \o file)

PlantedStore == [h \in {PlantedId(f) : f \in PlantedFiles} |->
                    CHOOSE f \in PlantedFiles : PlantedId(f) = h]

\* an id of 39 characters
ShortId == [len |-> HashLen - 1, of |-> <<>>]

ReadIds(st) == DOMAIN st \cup {ObjectId(OBJ_BLOB, <<97>>), ShortId}

InitObject ==
    /\ ostore \in {<<>>, PlantedStore}
    /\ olast = NotRun
    /\ IdleBesideObject

WriteObjectDone(o, c, r) ==
    /\ ostore' = r.store
    /\ olast' = [run |-> TRUE, op |-> "write", kind |-> String(o), content |-> c,
                 id |-> ObjectId(o, c), before |-> ostore, err |-> r.err]

\* one call of writeSingleObject
WriteObject ==
    /\ \E o \in {OBJ_COMMIT, OBJ_TREE, OBJ_BLOB, OBJ_TAG}, c \in ObjContents :
          /\ ObjectId(o, c) \in DOMAIN ostore
                \/ Cardinality(DOMAIN ostore \ DOMAIN PlantedStore) < MaxStored
          /\ WriteObjectDone(o, c, writeSingleObject(ostore, GitObject(o, c, NoHash), "none"))
    /\ UNCHANGED besideObject

\* one GetFileFromHash followed by ReadObjectFile
ReadStored ==
    /\ \E h \in ReadIds(ostore) :
          olast' = [run |-> TRUE, op |-> "read", id |-> h] @@ readByHash(ostore, h)
    /\ UNCHANGED <<ostore, besideObject>>

NextObject == WriteObject \/ ReadStored

SpecObject == InitObject /\ [][NextObject]_vars

(***************************************************************************)
(* What the claims about stored objects speak of.                          *)
(***************************************************************************)
\* the number a string of decimal digits denotes
RECURSIVE DigitsValue(_)
DigitsValue(ds) ==
    IF Len(ds) = 0 THEN 0 ELSE 10 * DigitsValue(SubSeq(ds, 1, Len(ds) - 1)) + (ds[Len(ds)] - 48)

\* full is kind, a space, the length of cont in decimal, a NUL and cont
IsLooseLayout(full, kind, cont) ==
    \E n \in 1..(Len(full) - Len(kind) - Len(cont) - 2) :
        /\ Len(full) = Len(kind) + 1 + n + 1 + Len(cont)
        /\ SubSeq(full, 1, Len(kind)) = kind
        /\ full[Len(kind) + 1] = 32
        /\ \A p \in 1..n : full[Len(kind) + 1 + p] \in 48..57
        /\ (n > 1 => full[Len(kind) + 2] # 48)
        /\ DigitsValue(SubSeq(full, Len(kind) + 2, Len(kind) + 1 + n)) = Len(cont)
        /\ full[Len(kind) + n + 2] = 0
        /\ SubSeq(full, Len(kind) + n + 3, Len(full)) = cont

\* the payload of a stored file of one stored block
PayloadOf(file) == SubSeq(file, 8, Len(file) - 4)

\* C14: a written object is stored as kind, space, decimal length, NUL and
\* content, and reading the id of an object written with kind and content
\* returns that kind and that content.
C14_FormatWriteReadRoundTrip ==
    /\ (olast.run /\ olast.op = "write") =>
          /\ ~olast.err
          /\ olast.id \in DOMAIN ostore
          /\ IsLooseLayout(PayloadOf(ostore[olast.id]), olast.kind, olast.content)
    /\ (olast.run /\ olast.op = "read") =>
          \A name \in LooseNames, c \in ObjContents :
              (olast.id = LooseId(name, c) /\ olast.id \in DOMAIN ostore) =>
                  ~olast.err /\ olast.kind = name /\ olast.content = c

\* a tag whose content has NUL and space bytes has been written and read back
C14_Witness ==
    /\ olast.run /\ olast.op = "read" /\ ~olast.err
    /\ olast.id = LooseId(NameTag, <<97, 0, 32, 0, 98>>)
    /\ olast.kind = NameTag
    /\ olast.content = <<97, 0, 32, 0, 98>>

\* the fields of the header of a payload: the parts of what precedes the
\* first NUL (of the whole payload when it has none) that spaces separate
HasNul(d) == \E p \in 1..Len(d) : d[p] = 0
FirstNul(d) == CHOOSE p \in 1..Len(d) : d[p] = 0 /\ \A q \in 1..(p - 1) : d[q] # 0
HeaderOf(d) == IF HasNul(d) THEN SubSeq(d, 1, FirstNul(d) - 1) ELSE d
HeaderFields(d) == Cardinality({p \in 1..Len(HeaderOf(d)) : HeaderOf(d)[p] = 32}) + 1
FirstField(d) == SubSeq(d, 1, (CHOOSE p \in 1..Len(d) : d[p] = 32 /\ \A q \in 1..(p - 1) : d[q] # 32) - 1)

\* the read of the file with payload d returned the kind and the bytes after
\* the first NUL
ReturnedPayload(d) ==
    /\ HasNul(d)
    /\ HeaderFields(d) = 2
    /\ olast.kind = FirstField(d)
    /\ olast.content = SubSeq(d, FirstNul(d) + 1, Len(d))

\* C17: a read of an id that is not 40 characters long or has no file is an
\* error; of the payload of a file, a read returns the kind and the bytes
\* after the first NUL, or an error, which it does when the part before the
\* first NUL is not two fields; and no read panics.
C17_ReadFailsCleanly ==
    (olast.run /\ olast.op = "read") =>
        /\ ~olast.panic
        /\ olast.id.len # HashLen => olast.err
        /\ (olast.id.len = HashLen /\ olast.id \notin DOMAIN ostore) =>
              olast.err /\ olast.why = "nosuch"
        /\ \A d \in OddPayloads :
              olast.id = PlantedId(ZFrame(d)) =>
                  /\ olast.err \/ ReturnedPayload(d)
                  /\ HeaderFields(d) # 2 => olast.err


(***************************************************************************)
(* CalculateSHA step by step on the package's hasher.  The hasher is the   *)
(* bytes written to it since its last Reset; its sum is the digest of      *)
(* those bytes.  A caller is at "shaWrite", "shaSum", "shaReset" (the      *)
(* deferred Reset, which runs as the call returns) and then "returned".    *)
(***************************************************************************)
\* hash.Hash: Reset, Write and Sum of the sha1 digest
Reset_Keep(h) == h
Reset(h) == <<>>
HashWrite(h, content) == h \o content
RawLen == 20
HashSum(h) == [len |-> RawLen, of |-> h]

\* hex.EncodeToString
EncodeToString(sha) == [len |-> 2 * sha.len, of |-> sha.of]

ShaResult(err, sha) == [err |-> err, sha |-> sha]

\* what CalculateSHA, or CalculateEncodedSHA when enc, returns with res
ShaReturn(arg, res) ==
    IF arg.fault # "none" THEN ShaResult(TRUE, NoHash)
    ELSE ShaResult(FALSE, IF arg.enc THEN EncodeToString(res) ELSE res)

\* defaultHasher.Write(content); a Write that takes fewer bytes than it is
\* given makes the call return an error (the sha1 hasher takes them all)
ShaWrite(p) ==
    /\ cpc[p] = "shaWrite"
    /\ defaultHasher' =
          IF carg[p].fault = "none" THEN HashWrite(defaultHasher, carg[p].content)
          ELSE HashWrite(defaultHasher, SubSeq(carg[p].content, 1, Len(carg[p].content) - 1))
    /\ cpc' = [cpc EXCEPT ![p] = IF carg[p].fault = "none" THEN "shaSum" ELSE "shaReset"]
    /\ UNCHANGED <<cobj, carg, csum, chash, cfs, rpc, rid, rseen, shaLog, besideConc>>

\* res := defaultHasher.Sum(nil)
ShaSum(p) ==
    /\ cpc[p] = "shaSum"
    /\ csum' = [csum EXCEPT ![p] = HashSum(defaultHasher)]
    /\ cpc' = [cpc EXCEPT ![p] = "shaReset"]
    /\ UNCHANGED <<defaultHasher, cobj, carg, chash, cfs, rpc, rid, rseen, shaLog, besideConc>>

\* the deferred defaultHasher.Reset() and the return
ShaReset(p) ==
    /\ cpc[p] = "shaReset"
    /\ defaultHasher' = Reset(defaultHasher)
    /\ chash' = [chash EXCEPT ![p] = ShaReturn(carg[p], csum[p])]
    /\ shaLog' = Append(shaLog, [content |-> carg[p].content, enc |-> carg[p].enc]
                                    @@ ShaReturn(carg[p], csum[p]))
    /\ cpc' = [cpc EXCEPT ![p] = "returned"]
    /\ UNCHANGED <<cobj, carg, csum, cfs, rpc, rid, rseen, besideConc>>

(***************************************************************************)
(* SpecSha: one caller calls CalculateSHA and CalculateEncodedSHA up to    *)
(* MaxCalls times, one call after the other.                               *)
(***************************************************************************)
MaxCalls == 3

ShaContents == {<<>>, <<97>>, <<98, 99>>}

InitSha ==
    /\ defaultHasher = <<>>
    /\ cpc = <<"returned">>
    /\ carg = <<[content |-> <<>>, enc |-> FALSE, fault |-> "none"]>>
    /\ csum = <<NoHash>>
    /\ chash = <<ShaResult(FALSE, NoHash)>>
    /\ cobj = <<>> /\ cfs = <<>> /\ rpc = "off" /\ rid = NoHash /\ rseen = NotRun
    /\ shaLog = <<>>
    /\ IdleBesideConc

\* the next call begins
CallSHA ==
    /\ cpc[1] = "returned"
    /\ Len(shaLog) < MaxCalls
    /\ \E c \in ShaContents, enc \in BOOLEAN, fault \in {"none", "short"} :
          /\ fault = "short" => Len(c) > 0
          /\ carg' = [carg EXCEPT ![1] = [content |-> c, enc |-> enc, fault |-> fault]]
    /\ csum' = [csum EXCEPT ![1] = NoHash]
    /\ cpc' = [cpc EXCEPT ![1] = "shaWrite"]
    /\ UNCHANGED <<defaultHasher, cobj, chash, cfs, rpc, rid, rseen, shaLog, besideConc>>

NextSha == CallSHA \/ ShaWrite(1) \/ ShaSum(1) \/ ShaReset(1)

SpecSha == InitSha /\ [][NextSha]_vars

\* C15: in a sequence of calls the hasher holds no byte when a call begins,
\* and each call that returns a digest returns the digest of its own
\* argument, so calls with the same content return the same id.
C15_EachCallHashesItsOwnBytes ==
    /\ cpc[1] = "shaWrite" => defaultHasher = <<>>
    /\ \A i \in 1..Len(shaLog) :
          ~shaLog[i].err =>
              /\ shaLog[i].sha.of = shaLog[i].content
              /\ shaLog[i].sha.len = IF shaLog[i].enc THEN HashLen ELSE RawLen
              /\ \A j \in 1..Len(shaLog) :
                    (~shaLog[j].err /\ shaLog[j].content = shaLog[i].content
                        /\ shaLog[j].enc = shaLog[i].enc) => shaLog[j].sha = shaLog[i].sha

\* a call that failed after writing a byte, then two calls with one content
C15_Witness ==
    /\ Len(shaLog) = 3
    /\ shaLog[1].err /\ shaLog[1].content = <<98, 99>>
    /\ ~shaLog[2].err /\ shaLog[2].content = <<97>>
    /\ ~shaLog[3].err /\ shaLog[3].content = <<97>> /\ shaLog[3].enc
    /\ shaLog[3].sha = CalculateEncodedSHA(<<97>>)


(***************************************************************************)
(* SpecConc: two goroutines each write one object with writeSingleObject   *)
(* while a reader opens and reads one of the two ids.  A writer is at      *)
(* "start", at the steps of CalculateSHA, then at "create", "write",       *)
(* "close" and "done".  The goroutines take turns call by call on the      *)
(* hasher, which has no lock; what two calls do to it when they overlap    *)
(* in time is not modelled.                                                *)
(***************************************************************************)
Writers == {1, 2}

ConcFirst == GitObject(OBJ_BLOB, <<97>>, NoHash)
ConcSecond == {GitObject(OBJ_BLOB, <<98>>, NoHash), GitObject(OBJ_TREE, <<97>>, NoHash)}

FullContent(obj) == FormatGitObjectContent(String(obj.ObjectType), obj.Content)
IdOf(obj) == CalculateEncodedSHA(FullContent(obj))

InitConc ==
    /\ defaultHasher = <<>>
    /\ cpc = <<"start", "start">>
    /\ \E second \in ConcSecond : cobj = <<ConcFirst, second>>
    /\ carg = <<[content |-> <<>>, enc |-> TRUE, fault |-> "none"],
                [content |-> <<>>, enc |-> TRUE, fault |-> "none"]>>
    /\ csum = <<NoHash, NoHash>>
    /\ chash = <<ShaResult(FALSE, NoHash), ShaResult(FALSE, NoHash)>>
    /\ cfs \in {<<>>, Put(<<>>, IdOf(ConcFirst), WriteCompactContent(FullContent(ConcFirst)))}
    /\ rpc = "open"
    /\ rid \in {IdOf(cobj[1]), IdOf(cobj[2])}
    /\ rseen = NotRun
    /\ shaLog = <<>>
    /\ IdleBesideConc

\* fullContent := common.FormatGitObjectContent(...), and the call of
\* CalculateEncodedSHA begins
Format(p) ==
    /\ cpc[p] = "start"
    /\ carg' = [carg EXCEPT ![p] = [content |-> FullContent(cobj[p]), enc |-> TRUE,
                                    fault |-> "none"]]
    /\ cpc' = [cpc EXCEPT ![p] = "shaWrite"]
    /\ UNCHANGED <<defaultHasher, cobj, csum, chash, cfs, rpc, rid, rseen, shaLog, besideConc>>

\* CreateEmptyObjectFile: os.Create makes the file, or empties it
CreateFile(p) ==
    /\ cpc[p] = "returned"
    /\ cpc' = [cpc EXCEPT ![p] = IF chash[p].err \/ chash[p].sha.len # HashLen
                                 THEN "failed" ELSE "write"]
    /\ cfs' = IF chash[p].err \/ chash[p].sha.len # HashLen THEN cfs
              ELSE Put(cfs, chash[p].sha, <<>>)
    /\ UNCHANGED <<defaultHasher, cobj, carg, csum, chash, rpc, rid, rseen, shaLog, besideConc>>

\* the bytes of a zlib stream that reach the file before the stream is
\* closed: its header of two bytes
BeforeClose(stream) == SubSeq(stream, 1, 2)

\* z.Write in WriteCompactContent
WriteBytes(p) ==
    /\ cpc[p] = "write"
    /\ cfs' = Put(cfs, chash[p].sha, BeforeClose(WriteCompactContent(carg[p].content)))
    /\ cpc' = [cpc EXCEPT ![p] = "close"]
    /\ UNCHANGED <<defaultHasher, cobj, carg, csum, chash, rpc, rid, rseen, shaLog, besideConc>>

\* the deferred z.Close() of WriteCompactContent
CloseStream(p) ==
    /\ cpc[p] = "close"
    /\ cfs' = Put(cfs, chash[p].sha, WriteCompactContent(carg[p].content))
    /\ cpc' = [cpc EXCEPT ![p] = "done"]
    /\ UNCHANGED <<defaultHasher, cobj, carg, csum, chash, rpc, rid, rseen, shaLog, besideConc>>

\* the reader's GetFileFromHash
OpenObject ==
    /\ rpc = "open"
    /\ rpc' = IF GetFileFromHash(cfs, rid).err THEN "done" ELSE "read"
    /\ rseen' = IF GetFileFromHash(cfs, rid).err
                THEN [run |-> TRUE, file |-> <<>>] @@ readByHash(cfs, rid)
                ELSE rseen
    /\ UNCHANGED <<defaultHasher, cpc, cobj, carg, csum, chash, cfs, rid, shaLog, besideConc>>

\* the reader's ReadObjectFile on the open file
ReadOpened ==
    /\ rpc = "read"
    /\ rpc' = "done"
    /\ rseen' = [run |-> TRUE, file |-> cfs[rid]] @@ readByHash(cfs, rid)
    /\ UNCHANGED <<defaultHasher, cpc, cobj, carg, csum, chash, cfs, rid, shaLog, besideConc>>

WriterStep(p) ==
    \/ Format(p) \/ ShaWrite(p) \/ ShaSum(p) \/ ShaReset(p)
    \/ CreateFile(p) \/ WriteBytes(p) \/ CloseStream(p)

NextConc == (\E p \in Writers : WriterStep(p)) \/ OpenObject \/ ReadOpened

SpecConc == InitConc /\ [][NextConc]_vars

(***************************************************************************)
(* What the claims about concurrent readers and writers speak of.          *)
(***************************************************************************)
\* the whole file of the object whose id is rid
WholeFileOf(id) ==
    WriteCompactContent(FullContent(CHOOSE obj \in {cobj[1], cobj[2]} : IdOf(obj) = id))

\* C18: a reader interleaved with the steps of a write of the id it reads
\* finds no object or reads the complete compressed object.
C18_ReaderSeesWholeObjectOrNone ==
    rpc = "done" => (rseen.err /\ rseen.why = "nosuch") \/ rseen.file = WholeFileOf(rid)

\* C19: when two concurrent writes of different objects are done, each
\* object lies under the SHA-1 of its own formatted bytes, with its own
\* bytes.
C19_ConcurrentWritesKeepTheirIds ==
    (\A p \in Writers : cpc[p] \in {"done", "failed"}) =>
        \A p \in Writers :
            /\ cpc[p] = "done"
            /\ chash[p].sha = IdOf(cobj[p])
            /\ IdOf(cobj[p]) \in DOMAIN cfs
            /\ cfs[IdOf(cobj[p])] = WriteCompactContent(FullContent(cobj[p]))


(***************************************************************************)
(* SpecAgain: WriteObjects as in Spec, and once it has returned nil it is  *)
(* called a second time on the same records and the store it left.         *)
(***************************************************************************)
InitAgain == Init /\ store0 = <<>>

\* the second call begins
RunAgain ==
    /\ wpc = "done" /\ ~werr.failed /\ wruns = 0
    /\ wruns' = 1
    /\ store1' = store
    /\ wpc' = IF Len(objects) = 0 THEN "done" ELSE "pass1"
    /\ wi' = 0 /\ wj' = 0 /\ deltas' = <<>> /\ deltaAt' = <<>>
    /\ prevStore' = store
    /\ lastOp' = "again"
    /\ UNCHANGED <<objects, store0, store, werr, wrote, besideAgain>>

NextAgain == Next \/ RunAgain

SpecAgain == InitAgain /\ [][NextAgain]_vars

\* the last round wrote an object and returned nil
RoundWrote == lastOp \in {"single", "delta"} /\ Len(wrote) > 0

\* the round that returns r on a sound file system returns nil and leaves
\* the store as it is
Rewrites(r) == ~r.err /\ r.store = store

\* C16: a write of an object whose id is in the store returns nil and leaves
\* every file of the store as it was, and a second WriteObjects on the same
\* records that returns nil leaves the store of the first.
C16_RewriteLeavesStoreUnchanged ==
    /\ (RoundWrote /\ wrote[Len(wrote)].hash \in DOMAIN prevStore) => store = prevStore
    /\ (wruns = 1 /\ wpc = "pass1" /\ ~IsRefDelta(objects[wi + 1])) =>
          Rewrites(writeSingleObject(store, objects[wi + 1], "none"))
    /\ (wruns = 1 /\ wpc = "pass2") =>
          Rewrites(writeDeltaObject(store, deltas[wj + 1], "none"))
    /\ (wruns = 1 /\ wpc = "done" /\ ~werr.failed) => store = store1

\* the second call has rewritten a blob and the object resolved from a delta
\* on it, and has returned
C16_Witness ==
    /\ wruns = 1 /\ wpc = "done" /\ ~werr.failed
    /\ Len(objects) = 2 /\ Len(deltas) = 1
    /\ Len(wrote) = 4
    /\ store = store1
    /\ DOMAIN store = {ObjectId(OBJ_BLOB, ContA), ObjectId(OBJ_BLOB, <<97, 98>>)}


(***************************************************************************)
(* GetRefList.  A line is a slice of the input; a slice expression with a  *)
(* bound past the length of the line panics, or reads on to the spare      *)
(* capacity and panics at the next expression, so only lengths are kept.   *)
(***************************************************************************)
\* bytes.Split(s, sep) for a separator of one byte: the parts between the
\* separators, one more than there are separators
SepAt(s, sep) == {p \in 1..Len(s) : s[p] = sep}
\* the position of the k-th separator, 0 for k = 0 and len(s) + 1 past the last
NthSep(s, sep, k) ==
    IF k = 0 THEN 0
    ELSE IF k > Cardinality(SepAt(s, sep)) THEN Len(s) + 1
    ELSE CHOOSE p \in SepAt(s, sep) : Cardinality({q \in SepAt(s, sep) : q < p}) = k - 1
Split(s, sep) ==
    [k \in 1..(Cardinality(SepAt(s, sep)) + 1) |->
        SubSeq(s, NthSep(s, sep, k - 1) + 1, NthSep(s, sep, k) - 1)]

FlushLine == <<48, 48, 48, 48>>

GitRef(hashBytes, nameBytes) == [Hash |-> hashBytes, Name |-> nameBytes]

RefResult(err, panic, refList) == [err |-> err, panic |-> panic, refs |-> refList]

\* the bytes of the first line that precede its length prefix
ServiceArtifactLen_Always(lineNum) == 4 + 0 * lineNum
ServiceArtifactLen(lineNum) == IF lineNum = 0 THEN 4 ELSE 0

\* the body of the loop once the leading bytes are cut off: line[:40],
\* line[40:], the space, and the name up to the first NUL
refOfLine(line) ==
    IF Len(line) < HashLen THEN [panic |-> TRUE, ref |-> GitRef(<<>>, <<>>)]
    ELSE IF Len(line) = HashLen \/ line[HashLen + 1] # 32
    THEN [panic |-> TRUE, ref |-> GitRef(<<>>, <<>>)]
    ELSE [panic |-> FALSE,
          ref |-> GitRef(SubSeq(line, 1, HashLen), Head(Split(Drop(line, HashLen + 1), 0)))]

\* the two line[4:] of the loop
cutLine(line, lineNum) ==
    IF Len(line) < ServiceArtifactLen(lineNum) \/ Len(line) - ServiceArtifactLen(lineNum) < 4
    THEN [panic |-> TRUE, ref |-> GitRef(<<>>, <<>>)]
    ELSE refOfLine(Drop(line, ServiceArtifactLen(lineNum) + 4))

\* the loop over refParts[1:]
RECURSIVE refLoop(_, _, _)
RECURSIVE refLoopOn(_, _, _, _)
refLoop(lines, lineNum, refList) ==
    IF lineNum >= Len(lines) \/ lines[lineNum + 1] = FlushLine
    THEN RefResult(FALSE, FALSE, refList)
    ELSE refLoopOn(lines, lineNum, refList, cutLine(lines[lineNum + 1], lineNum))

refLoopOn(lines, lineNum, refList, r) ==
    IF r.panic THEN RefResult(TRUE, TRUE, <<>>)
    ELSE refLoop(lines, lineNum + 1, Append(refList, r.ref))

refListOf(refParts) ==
    IF Len(refParts) < 2 THEN RefResult(TRUE, FALSE, <<>>)
    ELSE refLoop(Tail(refParts), 0, <<>>)

GetRefList(input) == refListOf(Split(input, 10))

(***************************************************************************)
(* SpecRefs: GetRefList on advertisements of up to MaxRefs refs, with and  *)
(* without capabilities after the name and lines after the flush, and on   *)
(* inputs that are no advertisement.                                       *)
(***************************************************************************)
MaxRefs == 2

Hex4(n) == <<HexDigit((n \div 4096) % 16), HexDigit((n \div 256) % 16),
             HexDigit((n \div 16) % 16), HexDigit(n % 16)>>

\* "001e# service=git-upload-pack"
ServiceLine ==
    <<48, 48, 49, 101, 35, 32, 115, 101, 114, 118, 105, 99, 101, 61, 103, 105, 116, 45,
      117, 112, 108, 111, 97, 100, 45, 112, 97, 99, 107>>

NameHEAD == <<72, 69, 65, 68>>
NameMain == <<114, 101, 102, 115, 47, 104, 101, 97, 100, 115, 47, 109, 97, 105, 110>>
NameV1 == <<114, 101, 102, 115, 47, 116, 97, 103, 115, 47, 118, 49>>
\* "multi_ack side-band"
SomeCaps == <<109, 117, 108, 116, 105, 95, 97, 99, 107, 32, 115, 105, 100, 101>>

\* forty hex characters whose first and last differ from the rest
HexHash(first, last) == <<first>> \o Repeat(48, HashLen - 2) \o <<last>>

\* an advertised ref: hash, name and whether capabilities follow the name
AdvRefs ==
    { [hash |-> h, name |-> n, caps |-> c] :
          h \in {HexHash(97, 49), HexHash(50, 102)},
          n \in {NameHEAD, NameMain, NameV1}, c \in BOOLEAN }

\* its pkt-line without the newline: the length, which counts the prefix and
\* the newline, the hash, a space, the name, and a NUL and the capabilities
PktPayload(a) ==
    a.hash \o <<32>> \o a.name \o (IF a.caps THEN <<0>> \o SomeCaps ELSE <<>>)
PktLine(a) == Hex4(Len(PktPayload(a)) + 5) \o PktPayload(a)

RECURSIVE PktLines(_)
PktLines(as) ==
    IF Len(as) = 0 THEN <<>> ELSE PktLine(Head(as)) \o <<10>> \o PktLines(Tail(as))

\* what may follow the flush line
AfterFlush ==
    { <<>>, <<10>>, <<10, 120, 121, 122>>,
      <<10>> \o PktLine([hash |-> HexHash(51, 52), name |-> NameV1, caps |-> FALSE]) \o <<10>> }

\* the response: the service line, the flush that ends it run together with
\* the first ref line, the other ref lines, the flush
Advertisement(as, tail) ==
    ServiceLine \o <<10>>
        \o (IF Len(as) = 0 THEN <<>> ELSE FlushLine) \o PktLines(as) \o FlushLine \o tail

AdvSeqs == UNION {[1..n -> AdvRefs] : n \in 0..MaxRefs}

\* inputs that are no advertisement: fewer than two lines, no flush, short
\* lines, no space after the hash, no refs in the real framing
OtherInputs ==
    { <<>>, ServiceLine, ServiceLine \o <<10>>,
      ServiceLine \o <<10>> \o FlushLine \o FlushLine,
      ServiceLine \o <<10>> \o <<48, 48, 48>>,
      ServiceLine \o <<10>> \o FlushLine \o Hex4(44) \o HexHash(97, 98),
      ServiceLine \o <<10>> \o FlushLine \o Hex4(50) \o HexHash(97, 98) \o <<47>> \o NameHEAD
          \o <<10>> \o FlushLine,
      ServiceLine \o <<10>> \o FlushLine
          \o PktLines(<<[hash |-> HexHash(97, 98), name |-> NameHEAD, caps |-> TRUE]>>),
      ServiceLine \o <<10>> \o FlushLine
          \o PktLine([hash |-> HexHash(97, 98), name |-> NameHEAD, caps |-> TRUE]) }

InitRefs ==
    /\ \/ \E as \in AdvSeqs, tail \in AfterFlush :
             /\ refInput = Advertisement(as, tail)
             /\ refAdv = [run |-> TRUE, refs |-> as, tail |-> tail]
       \/ refInput \in OtherInputs /\ refAdv = NotRun
    /\ refRes = NotRun
    /\ refReq = NotRun
    /\ IdleBesideRefs

ParseRefs ==
    /\ ~refRes.run
    /\ refRes' = [run |-> TRUE] @@ GetRefList(refInput)
    /\ UNCHANGED <<refInput, refAdv, refReq, besideRefs>>

\* "0032want %s\n" of a hash
WantPrefix == <<48, 48, 51, 50, 119, 97, 110, 116, 32>>
WantLine_NoNewline(hash) == WantPrefix \o hash
WantLine(hash) == WantPrefix \o hash \o <<10>>

\* "00000009done\n"
DoneLine == <<48, 48, 48, 48, 48, 48, 48, 57, 100, 111, 110, 101, 10>>

RECURSIVE wantLines(_)
wantLines(refs) ==
    IF Len(refs) = 0 THEN <<>> ELSE WantLine(Head(refs).Hash) \o wantLines(Tail(refs))

generateRefDiscoveryRequest(refs) == wantLines(refs) \o DoneLine

\* RefDiscovery builds the request body of the refs GetRefList returned
BuildRequest ==
    /\ refRes.run /\ ~refRes.err /\ ~refReq.run
    /\ refReq' = [run |-> TRUE, body |-> generateRefDiscoveryRequest(refRes.refs)]
    /\ UNCHANGED <<refInput, refAdv, refRes, besideRefs>>

NextRefs == ParseRefs \/ BuildRequest

SpecRefs == InitRefs /\ [][NextRefs]_vars

\* C20: of an advertisement GetRefList returns one record for each ref line
\* before the flush, in order, with the line's hash and its name up to the
\* NUL or the end of the line, whatever follows the flush.
C20_OneRecordPerAdvertisedRef ==
    (refRes.run /\ refAdv.run) =>
        /\ ~refRes.err
        /\ Len(refRes.refs) = Len(refAdv.refs)
        /\ \A i \in 1..Len(refAdv.refs) :
              /\ refRes.refs[i].Hash = refAdv.refs[i].hash
              /\ refRes.refs[i].Name = refAdv.refs[i].name

\* HEAD with capabilities, then a branch, then a ref line after the flush
C20_Witness ==
    /\ refRes.run /\ refAdv.run /\ ~refRes.err
    /\ Len(refAdv.refs) = 2
    /\ refAdv.refs[1].caps /\ ~refAdv.refs[2].caps
    /\ Len(refAdv.tail) > 4
    /\ refRes.refs = <<GitRef(HexHash(97, 49), NameHEAD), GitRef(HexHash(50, 102), NameMain)>>


\* C21: of an input that is no advertisement (fewer than two lines, a ref
\* line too short, no space after the hash, no flush line) GetRefList
\* returns an error, and it does not panic.
C21_MalformedAdvertisementIsAnError ==
    (refRes.run /\ ~refAdv.run) => refRes.err /\ ~refRes.panic


\* the i-th run of 50 bytes of the request body
BodyLine(i) == SubSeq(refReq.body, 50 * (i - 1) + 1, 50 * i)

\* C22: the request body of the refs GetRefList returned is one line of 50
\* bytes per ref, in order, "0032want ", the hash and a newline, 0032 being
\* the length of the line in hexadecimal, followed by "00000009done\n": 50n +
\* 13 bytes for n refs.
C22_WantLinesThenDone ==
    refReq.run =>
        /\ Len(refReq.body) = 50 * Len(refRes.refs) + 13
        /\ \A i \in 1..Len(refRes.refs) :
              /\ SubSeq(BodyLine(i), 1, 4) = Hex4(Len(BodyLine(i)))
              /\ SubSeq(BodyLine(i), 5, 9) = <<119, 97, 110, 116, 32>>
              /\ SubSeq(BodyLine(i), 10, 49) = refRes.refs[i].Hash
              /\ BodyLine(i)[50] = 10
        /\ SubSeq(refReq.body, 50 * Len(refRes.refs) + 1, Len(refReq.body))
              = <<48, 48, 48, 48>> \o Hex4(9) \o <<100, 111, 110, 101, 10>>

\* the body for two refs
C22_Witness ==
    /\ refReq.run
    /\ Len(refRes.refs) = 2
    /\ refRes.refs[1].Hash # refRes.refs[2].Hash
    /\ Len(refReq.body) = 113


(***************************************************************************)
(* SpecChain: WriteObjects as in Spec, on packs in which a ref-delta's     *)
(* base may be the object another ref-delta of the pack resolves to.       *)
(***************************************************************************)
\* base of 2 bytes, result of 3: copy 2 bytes from offset 0, then the literal b
DeltaAppendB2 == <<2, 3, 144, 2, 1, 98>>

ChainPool ==
    { GitObject(OBJ_BLOB, ContA, NoHash),
      GitObject(OBJ_TREE, ContA, NoHash),
      GitObject(OBJ_REF_DELTA, DeltaAppendB, ObjectId(OBJ_BLOB, ContA)),
      GitObject(OBJ_REF_DELTA, DeltaAppendB2, ObjectId(OBJ_BLOB, <<97, 98>>)) }

InitChain ==
    /\ objects \in Orderings(ChainPool, MaxRecs)
    /\ store0 = <<>>
    /\ store = store0
    /\ prevStore = store0
    /\ wpc = IF Len(objects) = 0 THEN "done" ELSE "pass1"
    /\ wi = 0
    /\ deltas = <<>>
    /\ deltaAt = <<>>
    /\ wj = 0
    /\ werr = NoErr
    /\ lastOp = "none"
    /\ wrote = <<>>
    /\ SizeIdle /\ PackIdle /\ RestIdle

SpecChain == InitChain /\ [][Next]_vars

\* the objects the records of objs produce: those of the records that are
\* no delta, and what a ref-delta on a produced object resolves to
ResolvesOn(d, b) ==
    /\ d.ObjectType = OBJ_REF_DELTA
    /\ d.Base = LooseId(b.name, b.cont)
    /\ ~applyDelta(b.cont, d.Content).err

MoreProduced(objs, S) ==
    S \cup { [name |-> b.name, cont |-> applyDelta(b.cont, objs[d].Content).out] :
                 <<d, b>> \in {x \in (1..Len(objs)) \X S : ResolvesOn(objs[x[1]], x[2])} }

RECURSIVE ProducedBy(_, _, _)
ProducedBy(objs, S, n) == IF n = 0 THEN S ELSE ProducedBy(objs, MoreProduced(objs, S), n - 1)

PackProduces(objs) ==
    ProducedBy(objs,
               { [name |-> String(objs[k].ObjectType), cont |-> objs[k].Content] :
                     k \in {x \in 1..Len(objs) : objs[x].ObjectType \in LooseTypes} },
               Len(objs))

\* every ref-delta of objs is on an object the records of objs produce
BasesAreProduced(objs) ==
    \A d \in 1..Len(objs) :
        objs[d].ObjectType = OBJ_REF_DELTA =>
            \E b \in PackProduces(objs) : ResolvesOn(objs[d], b)

\* C23: when each ref-delta's base is produced by a record of the pack, a
\* non-delta record or another ref-delta, WriteObjects succeeds whatever the
\* order of the records (the file system not failing).
C23_ProducedBasesAreThereInPass2 ==
    (wpc = "done" /\ BasesAreProduced(objects) /\ ~FileSystemFault) => ~werr.failed


(***************************************************************************)
(* What the claim about offset-delta records speaks of.                    *)
(***************************************************************************)
\* an offset-delta record: the header, the offset 5 in one byte, the frame
OffsetDeltaRecord == EncodeSize(OBJ_OFS_DELTA, NatBits(4)) \o <<5>> \o ZFrame(DeltaPayload)

StartsWith(s, prefix) == Len(s) >= Len(prefix) /\ SubSeq(s, 1, Len(prefix)) = prefix

\* C24: the round on an offset-delta record reads the offset after the
\* header, keeps it as the base of the record, and decompresses the payload
\* from the byte after the offset on.
C24_OffsetDeltaRecordIsRead ==
    (hdr.run /\ hdr.outcome = "ok" /\ hdr.numOfObjects >= 1
        /\ StartsWith(body, OffsetDeltaRecord) /\ (ppc = "done" \/ objIdx >= 1)) =>
            /\ Len(packObjs) >= 1
            /\ packObjs[1].ObjectType = OBJ_OFS_DELTA
            /\ packObjs[1].Content = DeltaPayload
            /\ packObjs[1].Base # <<>>



(***************************************************************************)
(* The failure modes of packObjectSize                                     *)
(***************************************************************************)
\* the header of content never ends: the buffer is empty or every byte of it
\* has its continuation bit set
EndsInContinuation(content) == FirstClear(content) = -1

\* some group of the header ending at index k has a one above bit 63
ContributesAboveBit63(content, k) == ~Fits64(ExactSize(content, k))

\* C25: packObjectSize returns an error when the buffer ends with the
\* continuation bit still set (the empty buffer included) and when a
\* continuation byte would contribute bits above bit 63; a size returned
\* without error is the exact, un-wrapped sum of the groups.
C25_TruncatedOrOverlongHeaderIsAnError ==
    psize.run =>
        /\ EndsInContinuation(buf) => psize.err
        /\ (/\ ~EndsInContinuation(buf)
            /\ ContributesAboveBit63(buf, FirstClear(buf))) => psize.err
        /\ ~psize.err =>
              /\ ~EndsInContinuation(buf)
              /\ SameValue(psize.length, ExactSize(buf, FirstClear(buf)))



(***************************************************************************)
(* SpecVarInt: readVarInt on a buffer and an offset into it                *)
(***************************************************************************)
MaxVarBytes == 10

VarFill == {128, 129, 255}
VarLast == {0, 1, 64, 127}
LeadBytes == {<<>>, <<200>>, <<7, 200>>}
VarTails == {<<>>, <<5>>, <<133>>}

\* m bytes with the continuation bit set, then perhaps a byte without it
VarRuns ==
    {Repeat(f, m) \o t :
        f \in VarFill, m \in 0..(MaxVarBytes - 1),
        t \in {<<>>} \cup {<<l>> : l \in VarLast}}

InitVarInt ==
    /\ \E lead \in LeadBytes, r \in VarRuns, tail \in VarTails :
          /\ vData = lead \o r \o tail
          /\ vOffset \in {Len(lead), Len(lead \o r \o tail), Len(lead \o r \o tail) + 1}
    /\ vRes = NotRun
    /\ IdleBesideVarInt

\* a call readVarInt(vData, vOffset)
ReadVarInt ==
    /\ ~vRes.run
    /\ vRes' = [run |-> TRUE] @@ readVarInt(vData, vOffset)
    /\ UNCHANGED <<vData, vOffset, besideVarInt>>

NextVarInt == ReadVarInt

SpecVarInt == InitVarInt /\ [][NextVarInt]_vars

\* the index (from 0) of the first byte at or after off with bit 7 clear, or -1
FirstClearFrom(data, off) ==
    IF \A p \in (off + 1)..Len(data) : data[p] >= 128 THEN -1
    ELSE (CHOOSE p \in (off + 1)..Len(data) :
              data[p] < 128 /\ \A q \in (off + 1)..(p - 1) : data[q] >= 128) - 1

\* sum over n of (data[off+n] & 0x7F) * 2^(7n) up to index last, as bits: the
\* groups do not overlap
RECURSIVE VarGroups(_, _, _)
VarGroups(data, n, last) ==
    IF n > last THEN <<>> ELSE ByteBits(data[n + 1], 7) \o VarGroups(data, n + 1, last)

\* C26: readVarInt returns the sum of the 7-bit groups up to and including
\* the first byte with bit 7 clear and the offset just past that byte; it
\* returns an error if the buffer ends first or if a ninth byte still has its
\* continuation bit set; a returned value is below 2^63.
C26_VarIntIsTheSumOfItsGroups ==
    vRes.run =>
        LET k == FirstClearFrom(vData, vOffset)
        IN /\ (k = -1 \/ k - vOffset >= 9) => vRes.err
           /\ (k >= 0 /\ k - vOffset <= 8) =>
                 /\ ~vRes.err
                 /\ vRes.newOffset = k + 1
                 /\ SameValue(vRes.size, VarGroups(vData, vOffset, k))
           /\ ~vRes.err => vRes.size[U64Bits] = 0

\* a nine-byte integer whose last group reaches bit 62, read at an offset
\* inside the buffer
C26_Witness ==
    /\ vRes.run /\ ~vRes.err
    /\ vOffset > 0
    /\ vRes.newOffset = vOffset + 9
    /\ vRes.size[U64Bits - 1] = 1


(***************************************************************************)
(* The literal command of applyDelta                                       *)
(***************************************************************************)
\* what the literal commands from pos on append, up to the end of the stream
\* ("ok"), to the first copy command ("copy"), to a command byte 0 ("zero")
\* or to a literal with fewer bytes left than its length ("short")
RECURSIVE Literals(_, _, _)
Literals(d, pos, out) ==
    IF pos >= Len(d) THEN [status |-> "ok", out |-> out, next |-> pos]
    ELSE IF d[pos + 1] >= 128 THEN [status |-> "copy", out |-> out, next |-> pos]
    ELSE IF d[pos + 1] = 0 THEN [status |-> "zero", out |-> out, next |-> pos]
    ELSE IF Len(d) - (pos + 1) < d[pos + 1] THEN [status |-> "short", out |-> out, next |-> pos]
    ELSE Literals(d, pos + 1 + d[pos + 1], out \o SubSeq(d, pos + 2, pos + 1 + d[pos + 1]))

LiteralsRead == Literals(dInstr, DeclaredResult.next, <<>>)

\* C27: a command byte with bit 7 clear and low bits 0 fails, one with fewer
\* than L instruction bytes left fails, and otherwise the next L bytes are
\* appended and the cursor moves past them; a failure returns no output.
C27_LiteralAppendsItsBytes ==
    (dRes.run /\ BaseSizeRight /\ DeclaredResult.kind = "small") =>
        /\ LiteralsRead.status \in {"zero", "short"} =>
              dRes.err /\ ~dRes.panic /\ dRes.out = <<>>
        /\ (LiteralsRead.status = "ok" /\ Len(LiteralsRead.out) = DeclaredResult.val) =>
              ~dRes.err /\ dRes.out = LiteralsRead.out
        /\ (LiteralsRead.status = "copy" /\ ~dRes.err) =>
              /\ Len(dRes.out) >= Len(LiteralsRead.out)
              /\ SubSeq(dRes.out, 1, Len(LiteralsRead.out)) = LiteralsRead.out
        /\ dRes.err => dRes.out = <<>>

\* a literal of 127 bytes and one of 1 byte have been appended
C27_Witness ==
    /\ dRes.run /\ ~dRes.err
    /\ dInstr = <<1, 128, 1, 127>> \o LiteralData(127) \o <<1, 120>>
    /\ dRes.out = LiteralData(127) \o <<120>>


(***************************************************************************)
(* SpecCopy: the copy command of applyDelta, from its command byte to the  *)
(* bounds check: what offset and size hold then, and where deltaOffset is  *)
(***************************************************************************)
CopyRead(err, co, cs) ==
    [err |-> err, offsetLow |-> co.low, offsetHigh |-> co.high, size |-> cs.size,
     deltaOffset |-> cs.next]

copySizeOf(d, commandByte, co) ==
    IF co.err THEN CopyRead(TRUE, co, [size |-> 0, next |-> co.next])
    ELSE CopyRead(readCopySize(d, co.next, commandByte, 0, DefaultCopySize, 0).err, co,
                  readCopySize(d, co.next, commandByte, 0, DefaultCopySize, 0))

\* the locals of the loop body when the command byte at off is a copy
readCopyCommand(d, off) ==
    copySizeOf(d, d[off + 1], readCopyOffset(d, off + 1, d[off + 1], 0, 0, 0))

CopyCommandBytes == 128..255

\* the values an argument byte of bit k takes: 0 and a value of its own
ArgValues(k) == {0, Pow2(6 - k)}

\* the argument bytes of cmd from bit k on, in every combination
RECURSIVE ArgBytes(_, _)
ArgBytes(cmd, k) ==
    IF k > 6 THEN {<<>>}
    ELSE IF Bit(cmd, k) THEN {<<v>> \o rest : v \in ArgValues(k), rest \in ArgBytes(cmd, k + 1)}
    ELSE ArgBytes(cmd, k + 1)

\* the same, and every argument byte 0xff
ArgRuns(cmd) == ArgBytes(cmd, 0) \cup {Repeat(255, ArgCount(cmd))}

\* a copy command with all its bytes, alone and between other bytes, and with
\* its last byte missing
CopyInputs ==
    UNION { { [instr |-> <<cmd>> \o args, at |-> 0] : args \in ArgRuns(cmd) }
            \cup { [instr |-> <<3, 145, cmd>> \o args \o <<9>>, at |-> 2] :
                     args \in ArgRuns(cmd) }
            \cup { [instr |-> <<cmd>> \o SubSeq(args, 1, Len(args) - 1), at |-> 0] :
                     args \in ArgRuns(cmd) \ {<<>>} } :
            cmd \in CopyCommandBytes }

InitCopy ==
    /\ \E inp \in CopyInputs : cpInstr = inp.instr /\ cpAt = inp.at
    /\ cpRes = NotRun
    /\ cpRes2 = NotRun
    /\ IdleBesideCopy

\* the body of the loop of applyDelta on the copy command at cpAt
ReadCopy ==
    /\ ~cpRes.run
    /\ cpRes' = [run |-> TRUE] @@ readCopyCommand(cpInstr, cpAt)
    /\ UNCHANGED <<cpInstr, cpAt, cpRes2, besideCopy>>

NextCopy == ReadCopy

SpecCopy == InitCopy /\ [][NextCopy]_vars

CopyCmd == cpInstr[cpAt + 1]
HasAllArgs == cpAt + 1 + ArgCount(CopyCmd) <= Len(cpInstr)
NoSizeBits == ~Bit(CopyCmd, 4) /\ ~Bit(CopyCmd, 5) /\ ~Bit(CopyCmd, 6)

SizeBytesSum ==
    CopyArg(cpInstr, cpAt, CopyCmd, 4) + CopyArg(cpInstr, cpAt, CopyCmd, 5) * 256
        + CopyArg(cpInstr, cpAt, CopyCmd, 6) * 65536

\* one byte per set bit is consumed, the offset is the sum of the offset
\* bytes shifted by 0, 8, 16 and 24 (the byte of bit 3 held apart)
OffsetAndCursorAsStated ==
    /\ ~cpRes.err
    /\ cpRes.deltaOffset = cpAt + 1 + ArgCount(CopyCmd)
    /\ cpRes.offsetLow = CopyArg(cpInstr, cpAt, CopyCmd, 0)
                            + CopyArg(cpInstr, cpAt, CopyCmd, 1) * 256
                            + CopyArg(cpInstr, cpAt, CopyCmd, 2) * 65536
    /\ cpRes.offsetHigh = CopyArg(cpInstr, cpAt, CopyCmd, 3)

\* C28 as stated: for each of the 128 copy command bytes one byte per set bit
\* is consumed, offset and size are the sums of their bytes, and size is 65536
\* exactly when none of bits 4..6 is set.
C28_SizeIs65536OnlyWithoutSizeBits ==
    (cpRes.run /\ HasAllArgs) =>
        /\ OffsetAndCursorAsStated
        /\ ~NoSizeBits => cpRes.size = SizeBytesSum
        /\ cpRes.size = 65536 <=> NoSizeBits

\* C28, amended: the same, with size 65536 whenever none of bits 4..6 is
\* set and the sum of the size bytes otherwise, which is 65536 too for a byte
\* 1 of bit 6 alone and 0 for size bytes that are all zero.
C28_CopyOffsetAndSizeAssembly ==
    (cpRes.run /\ HasAllArgs) =>
        /\ OffsetAndCursorAsStated
        /\ cpRes.size = IF NoSizeBits THEN 65536 ELSE SizeBytesSum

\* the command byte 0xff has read its seven bytes
C28_Witness ==
    /\ cpRes.run /\ ~cpRes.err
    /\ CopyCmd = 255 /\ cpAt = 2
    /\ cpRes.deltaOffset = 10
    /\ cpRes.offsetLow = 64 + 32 * 256 + 16 * 65536 /\ cpRes.offsetHigh = 8
    /\ cpRes.size = 4 + 2 * 256 + 65536


(***************************************************************************)
(* SpecFind: findAndDecompress on a frame followed by other bytes, and on  *)
(* bytes that start with no complete frame                                 *)
(***************************************************************************)
MaxBlocks == 2

StoredBlock(final, payload) ==
    <<final, Len(payload) % 256, Len(payload) \div 256,
      255 - (Len(payload) % 256), 255 - (Len(payload) \div 256)>> \o payload

RECURSIVE StoredBlocks(_)
StoredBlocks(parts) ==
    IF Len(parts) = 1 THEN StoredBlock(1, parts[1])
    ELSE StoredBlock(0, Head(parts)) \o StoredBlocks(Tail(parts))

\* a zlib frame of stored blocks, one for each part
ZFrameOf(header, parts) == header \o StoredBlocks(parts) \o Adler32Bytes(Flatten(parts))

\* the headers 78 01, 78 9c, 78 da and 08 1d
ZHeaders == {<<120, 1>>, <<120, 156>>, <<120, 218>>, <<8, 29>>}

FramePayloads == {<<>>, <<104>>, DeltaPayload, Repeat(116, 17), <<120, 1, 1, 0>>}

FrameParts == UNION {[1..n -> FramePayloads] : n \in 1..MaxBlocks}

\* what follows a frame: nothing, bytes that are no frame, the start of a
\* frame, a whole frame, a pack's trailer
FrameTails == {<<>>, <<0>>, <<120>>, <<120, 1, 1>>, ZFrame(<<104>>), Repeat(17, 20)}

\* a frame cut short, a frame with a wrong checksum, wrong header bytes, a
\* header that asks for a dictionary, a block of the reserved kind and a
\* block whose length and its complement disagree
NoFrames ==
    UNION { {SubSeq(ZFrameOf(h, ps), 1, n) : n \in 0..(Len(ZFrameOf(h, ps)) - 1)} :
            h \in {<<120, 1>>}, ps \in FrameParts }
    \cup {ZFrameBadSum(p) \o t : p \in FramePayloads, t \in FrameTails}
    \cup {h \o StoredBlocks(<<p>>) \o Adler32Bytes(p) \o t :
            h \in {<<120, 2>>, <<121, 1>>, <<136, 28>>, <<120, 32>>, <<0, 0>>},
            p \in FramePayloads, t \in FrameTails}
    \cup {<<120, 1, 7, 0, 0, 255, 255>> \o t : t \in FrameTails}
    \cup {<<120, 1, 1, 1, 0, 255, 255, 104>> \o Adler32Bytes(<<104>>) \o t : t \in FrameTails}

InitFind ==
    /\ \/ \E h \in ZHeaders, ps \in FrameParts, t \in FrameTails :
             /\ fData = ZFrameOf(h, ps) \o t
             /\ fBuilt = [run |-> TRUE, frame |-> ZFrameOf(h, ps), holds |-> Flatten(ps)]
       \/ fData \in NoFrames /\ fBuilt = NotRun
    /\ fRes = NotRun
    /\ IdleBesideFind

compressedOf_Whole(data, r) == data

\* compressed = data[:used]
compressedOf(data, r) == IF r.err THEN <<>> ELSE SubSeq(data, 1, r.used)

\* a call findAndDecompress(fData)
FindAndDecompress ==
    /\ ~fRes.run
    /\ fRes' = [run |-> TRUE, compressed |-> compressedOf(fData, findAndDecompress(fData))]
                   @@ findAndDecompress(fData)
    /\ UNCHANGED <<fData, fBuilt, besideFind>>

NextFind == FindAndDecompress

SpecFind == InitFind /\ [][NextFind]_vars

\* C29: on a complete zlib frame of length L followed by any bytes,
\* findAndDecompress returns what the frame holds, used = L and compressed =
\* data[0..L); on a prefix that is no valid frame or an incomplete one it
\* returns an error.
C29_UsedIsTheFrameLength ==
    fRes.run =>
        /\ fBuilt.run =>
              /\ ~fRes.err
              /\ fRes.decompressed = fBuilt.holds
              /\ fRes.used = Len(fBuilt.frame)
              /\ fRes.compressed = fBuilt.frame
        /\ ~fBuilt.run => fRes.err

\* a frame of two blocks has been read up to its end, a second frame behind
\* it left alone
C29_Witness ==
    /\ fRes.run /\ ~fRes.err /\ fBuilt.run
    /\ fData = fBuilt.frame \o ZFrame(<<104>>)
    /\ fBuilt.holds = <<104>> \o DeltaPayload
    /\ fRes.used = Len(fData) - Len(ZFrame(<<104>>))


(***************************************************************************)
(* The applyDelta with unrolled branches, and SpecTwo: both applyDelta on  *)
(* the same base and instructions, both copy commands on the same bytes    *)
(***************************************************************************)
VarIntShiftLimit2 == 63

RECURSIVE readVarIntLoop2(_, _, _, _)
readVarIntLoop2(data, deltaOffset, result, shift) ==
    IF deltaOffset >= Len(data) THEN VarIntErr
    ELSE IF data[deltaOffset + 1] < 128
    THEN [err |-> FALSE,
          size |-> U64Add(result, U64MulPow2(data[deltaOffset + 1] % 128, shift)),
          newOffset |-> deltaOffset + 1]
    ELSE IF shift + 7 >= VarIntShiftLimit2 THEN VarIntErr
    ELSE readVarIntLoop2(data, deltaOffset + 1,
                         U64Add(result, U64MulPow2(data[deltaOffset + 1] % 128, shift)),
                         shift + 7)

readVarInt2(data, deltaOffset) == readVarIntLoop2(data, deltaOffset, U64(0), 0)

\* the locals of a copy command: offset (its byte of bit 3 held apart), size,
\* sizeBytesRead and deltaOffset
CopyLocals(pos) ==
    [err |-> FALSE, why |-> "", pos |-> pos, low |-> 0, high |-> 0,
     size |-> 65536, sizeBytesRead |-> 0]

\* if (commandByte & bit k) != 0 { offset |= byte << 8k }, for k in 0..3
offsetByte2(d, commandByte, k, st) ==
    IF st.err \/ ~Bit(commandByte, k) THEN st
    ELSE IF st.pos >= Len(d) THEN [st EXCEPT !.err = TRUE, !.why = "offsetbyte"]
    ELSE IF k = 3 THEN [st EXCEPT !.high = d[st.pos + 1], !.pos = @ + 1]
    ELSE [st EXCEPT !.low = @ + d[st.pos + 1] * Pow2(8 * k), !.pos = @ + 1]

\* if (commandByte & 0x10) != 0 { size = byte << 0 }
sizeByteFirst2(d, commandByte, st) ==
    IF st.err \/ ~Bit(commandByte, 4) THEN st
    ELSE IF st.pos >= Len(d) THEN [st EXCEPT !.err = TRUE, !.why = "sizebyte"]
    ELSE [st EXCEPT !.size = d[st.pos + 1], !.pos = @ + 1, !.sizeBytesRead = @ + 1]

sizeByteNext2_AlwaysOr(d, commandByte, k, st) ==
    IF st.err \/ ~Bit(commandByte, k) THEN st
    ELSE IF st.pos >= Len(d) THEN [st EXCEPT !.err = TRUE, !.why = "sizebyte"]
    ELSE [st EXCEPT !.size = @ + d[st.pos + 1] * Pow2(8 * (k - 4)), !.pos = @ + 1,
                    !.sizeBytesRead = @ + 1]

\* if (commandByte & bit k) != 0 { size = or size |= byte << 8(k-4) }, for
\* k in 5..6
sizeByteNext2(d, commandByte, k, st) ==
    IF st.err \/ ~Bit(commandByte, k) THEN st
    ELSE IF st.pos >= Len(d) THEN [st EXCEPT !.err = TRUE, !.why = "sizebyte"]
    ELSE IF st.sizeBytesRead = 0
    THEN [st EXCEPT !.size = d[st.pos + 1] * Pow2(8 * (k - 4)), !.pos = @ + 1,
                    !.sizeBytesRead = @ + 1]
    ELSE [st EXCEPT !.size = @ + d[st.pos + 1] * Pow2(8 * (k - 4)), !.pos = @ + 1,
                    !.sizeBytesRead = @ + 1]

\* the seven branches of the copy command whose command byte is at off
copyLocals2(d, off) ==
    sizeByteNext2(d, d[off + 1], 6,
      sizeByteNext2(d, d[off + 1], 5,
        sizeByteFirst2(d, d[off + 1],
          offsetByte2(d, d[off + 1], 3,
            offsetByte2(d, d[off + 1], 2,
              offsetByte2(d, d[off + 1], 1,
                offsetByte2(d, d[off + 1], 0, CopyLocals(off + 1))))))))

readCopyCommand2(d, off) ==
    [err |-> copyLocals2(d, off).err,
     offsetLow |-> copyLocals2(d, off).low, offsetHigh |-> copyLocals2(d, off).high,
     size |-> copyLocals2(d, off).size, deltaOffset |-> copyLocals2(d, off).pos]

RECURSIVE applyDeltaLoop2(_, _, _, _)
RECURSIVE copyRead2(_, _, _, _)
applyDeltaLoop2(baseContent, d, off, resultBuffer) ==
    IF off >= Len(d) THEN DeltaResult(FALSE, FALSE, "", resultBuffer)
    ELSE IF d[off + 1] >= 128
    THEN copyRead2(baseContent, d, resultBuffer, copyLocals2(d, off))
    ELSE IF d[off + 1] % 128 = 0 THEN DeltaResult(TRUE, FALSE, "literal0", <<>>)
    ELSE IF off + 1 + (d[off + 1] % 128) > Len(d)
    THEN DeltaResult(TRUE, FALSE, "literal", <<>>)
    ELSE applyDeltaLoop2(baseContent, d, off + 1 + (d[off + 1] % 128),
                         resultBuffer \o SubSeq(d, off + 2, off + 1 + (d[off + 1] % 128)))

copyRead2(baseContent, d, resultBuffer, st) ==
    IF st.err THEN DeltaResult(TRUE, FALSE, st.why, <<>>)
    ELSE IF st.high > 0 \/ st.low + st.size > Len(baseContent)
    THEN DeltaResult(TRUE, FALSE, "bounds", <<>>)
    ELSE applyDeltaLoop2(baseContent, d, st.pos,
                         resultBuffer \o SubSeq(baseContent, st.low + 1, st.low + st.size))

resultSizeCheck2(resultSize, r) ==
    IF r.err THEN r
    ELSE IF U64(Len(r.out)) # resultSize THEN DeltaResult(TRUE, FALSE, "resolved", <<>>)
    ELSE r

applyDeltaCommands2(baseContent, deltaInstructions, v2) ==
    IF v2.err THEN DeltaResult(TRUE, FALSE, "resultsize", <<>>)
    ELSE IF MakePanics(v2.size) THEN DeltaResult(TRUE, TRUE, "makeslice", <<>>)
    ELSE resultSizeCheck2(v2.size,
             applyDeltaLoop2(baseContent, deltaInstructions, v2.newOffset, <<>>))

applyDeltaSizes2(baseContent, deltaInstructions, v1) ==
    IF v1.err THEN DeltaResult(TRUE, FALSE, "basesize", <<>>)
    ELSE IF v1.size # U64(Len(baseContent)) THEN DeltaResult(TRUE, FALSE, "mismatch", <<>>)
    ELSE applyDeltaCommands2(baseContent, deltaInstructions,
                             readVarInt2(deltaInstructions, v1.newOffset))

applyDelta2(baseContent, deltaInstructions) ==
    applyDeltaSizes2(baseContent, deltaInstructions, readVarInt2(deltaInstructions, 0))

\* copy commands on a base of 600 bytes: an offset in one and in two bytes, a
\* size in one and in two bytes and with its first byte absent
WideBase == SampleBase(600)

WideCopies ==
    { <<144, 0>>, <<145, 7, 0>>, <<147, 44, 1, 200>>, <<160, 1>>, <<161, 9, 2>>,
      <<176, 44, 1>>, <<177, 1, 0, 2>>, <<179, 44, 1, 2, 1>>, <<208, 0, 0>>,
      <<224, 2, 0>>, <<240, 3, 1, 0>>, <<191, 1, 0, 0, 0, 5, 0>>, <<255, 1, 1, 0, 0, 9, 1, 0>> }

WideDeltas ==
    { [base |-> WideBase, instr |-> EncodeVarInt(600) \o EncodeVarInt(n) \o c \o t] :
        c \in WideCopies, n \in {0, 1, 2, 256, 258, 259, 265, 300, 512, 513, 769},
        t \in {<<>>, <<1, 120>>} }

\* the sizes of GeneratedDeltas before no command and before one
OneCommandDeltas ==
    UNION { { [base |-> b, instr |-> bs \o rs \o c] :
                bs \in BaseSizeBytes(b), rs \in ResultSizeBytes,
                c \in DeltaCmdPool \cup {<<>>} } :
            b \in DeltaBases }

TwoDeltas ==
    OneCommandDeltas \cup IdentityDeltas \cup ShortDeltas \cup LiteralDeltas \cup WideDeltas

InitTwo ==
    \/ InitCopy
    \/ /\ \E inp \in TwoDeltas : dBase = inp.base /\ dInstr = inp.instr
       /\ dRes = NotRun
       /\ dRes2 = NotRun
       /\ IdleBesideDelta

\* a call of the applyDelta with unrolled branches
ApplyDelta2 ==
    /\ dInstr # <<>> \/ dBase # <<>>
    /\ ~dRes2.run
    /\ dRes2' = [run |-> TRUE] @@ applyDelta2(dBase, dInstr)
    /\ UNCHANGED <<dBase, dInstr, dRes, besideDelta>>

\* the unrolled branches on the copy command at cpAt
ReadCopy2 ==
    /\ cpInstr # <<>>
    /\ ~cpRes2.run
    /\ cpRes2' = [run |-> TRUE] @@ readCopyCommand2(cpInstr, cpAt)
    /\ UNCHANGED <<cpInstr, cpAt, cpRes, besideCopy>>

ApplyDeltaOnce == (dInstr # <<>> \/ dBase # <<>>) /\ ApplyDelta
ReadCopyOnce == cpInstr # <<>> /\ ReadCopy

NextTwo == ApplyDeltaOnce \/ ApplyDelta2 \/ ReadCopyOnce \/ ReadCopy2

SpecTwo == InitTwo /\ [][NextTwo]_vars

\* C30: the applyDelta that loops over the bit tables and the one with
\* unrolled branches agree: on the same base and instructions both return
\* the same bytes or both fail, and a copy command leaves both with the same
\* offset, size and cursor.
C30_TwoApplyDeltasAgree ==
    /\ (dRes.run /\ dRes2.run) =>
          /\ dRes.err = dRes2.err
          /\ dRes.panic = dRes2.panic
          /\ dRes.out = dRes2.out
    /\ (cpRes.run /\ cpRes2.run) =>
          /\ cpRes.err = cpRes2.err
          /\ ~cpRes.err => cpRes = cpRes2

\* both have copied 258 bytes from offset 300 of the wide base and appended
\* a literal
C30_Witness ==
    /\ dRes.run /\ dRes2.run /\ ~dRes.err /\ ~dRes2.err
    /\ dBase = WideBase
    /\ dInstr = EncodeVarInt(600) \o EncodeVarInt(259) \o <<179, 44, 1, 2, 1, 1, 120>>
    /\ dRes2.out = SubSeq(WideBase, 301, 558) \o <<120>>

====
